---- MODULE Spec2Model ----
(***************************************************************************)
(* Marketing-operations backend: trust scores, vendor matching, content    *)
(* scheduler, pitch scoring, investor matching, sessions and the sample    *)
(* rows of GET /api/init.  The record store is the                         *)
(* SQLite file platform.db; every table is a sequence of rows whose index  *)
(* is the AUTOINCREMENT key.  Rows are read as column-name mappings.       *)
(* Real-valued scores are exact rationals <<numerator, denominator>> in    *)
(* lowest terms.                                                           *)
(***************************************************************************)
EXTENDS Integers, Sequences, FiniteSets, TLC

(* ----------------------------- bounds ---------------------------------- *)
MaxRows == 2          \* rows inserted into collaborations and ad_campaigns together

VendorIds == {1, 2}
ReviewerIds == {1}

(* ----------------------------- state ----------------------------------- *)
VARIABLES
  reviews,          \* table reviews: rows [reviewer_id, vendor_id, rating]
  collaborations,   \* table collaborations: rows [vendor1_id, vendor2_id, status]
  ad_campaigns,     \* table ad_campaigns: rows [vendor_id, status]
  trust_scores,     \* table trust_scores: primary key vendor_id -> row
  trust_events,     \* table trust_events: rows [vendor_id, event_type]
  last,             \* the last call: its operation, arguments and outcome
  pc,               \* concurrent requests: the statement each request is at
  req,              \* concurrent requests: [kind, v] of each request
  fetched,          \* concurrent requests: rows fetched by the SELECTs so far
  write_lock,       \* the request whose connection holds SQLite's write lock, 0 if none
  vendor_profiles,  \* table vendor_profiles: rows, vendor_id is the index
  answer,           \* the last matching call: its arguments and what it returned
  content_calendar, \* table content_calendar: rows, content_id is the index
  jobs,             \* schedule.jobs: the jobs of the process-wide scheduler
  clock,            \* the instant of the schedulers' latest wake-up
  running,          \* the job whose execute_content_post is between its commits, 0 if none
  fundraising_pitches, \* table fundraising_pitches: rows, pitch_id is the index
  pitch_score,      \* the last calculate_pitch_score call: its pitch_id and result
  investors,        \* table investors: rows of reference data, no method writes it
  sessions          \* table sessions: rows [session_id, user_id, created_at, expires_at]

trustVars == <<reviews, collaborations, ad_campaigns, trust_scores, trust_events>>
concVars == <<pc, req, fetched, write_lock>>
matchVars == <<vendor_profiles, answer>>
contentVars == <<content_calendar, jobs, clock, running>>
vars == <<reviews, collaborations, ad_campaigns, trust_scores, trust_events, last,
          pc, req, fetched, write_lock, vendor_profiles, answer,
          content_calendar, jobs, clock, running, fundraising_pitches, pitch_score,
          investors, sessions>>
pitchVars == <<fundraising_pitches, pitch_score, investors>>

authVars == <<sessions>>

nonTrustVars == <<concVars, matchVars, contentVars, pitchVars, authVars>>

None == 0             \* validate_session() found no user
NoCall == [op |-> "none", v |-> 0, error |-> "none"]

(* --------------------------- rationals --------------------------------- *)
RECURSIVE GCD(_, _)
GCD(a, b) == IF b = 0 THEN a ELSE GCD(b, a % b)

Abs(x) == IF x < 0 THEN -x ELSE x

Rat(n, d) ==
  LET g == GCD(Abs(n), d) IN <<n \div g, d \div g>>

RatLess(p, q) == p[1] * q[2] < q[1] * p[2]

RECURSIVE SumRatings(_)
SumRatings(rows) ==
  IF rows = <<>> THEN 0 ELSE Head(rows).rating + SumRatings(Tail(rows))

(* ------------------- TrustSystem.calculate_trust_score ----------------- *)
\* SELECT COUNT(*), SUM(status = 'completed') FROM collaborations
\* WHERE vendor1_id = v OR vendor2_id = v
collab_result(collabs, v) ==
  LET Touches(c) == c.vendor1_id = v \/ c.vendor2_id = v
      Done(c) == Touches(c) /\ c.status = "completed"
  IN <<Len(SelectSeq(collabs, Touches)), Len(SelectSeq(collabs, Done))>>

\* SELECT AVG(rating) FROM reviews WHERE vendor_id = v : <<count, sum>>
review_result(revs, v) ==
  LET Mine(r) == r.vendor_id = v
  IN <<Len(SelectSeq(revs, Mine)), SumRatings(SelectSeq(revs, Mine))>>

\* SELECT COUNT(*), SUM(status = 'completed') FROM ad_campaigns WHERE vendor_id = v
campaign_result(camps, v) ==
  LET Mine(c) == c.vendor_id = v
      Done(c) == c.vendor_id = v /\ c.status = "completed"
  IN <<Len(SelectSeq(camps, Mine)), Len(SelectSeq(camps, Done))>>

\* completed / total if total > 0 else 0
completion_rate(result) ==
  IF result[1] > 0 THEN Rat(result[2], result[1]) ELSE <<0, 1>>

\* AVG(rating) or 0
avg_rating_or_zero(result) ==
  IF result[1] = 0 \/ result[2] = 0 THEN <<0, 1>> ELSE Rat(result[2], result[1])

\* AVG(rating) or 3.0
avg_rating(result) ==
  IF result[1] = 0 \/ result[2] = 0 THEN <<3, 1>> ELSE Rat(result[2], result[1])

\* collab_rate*30 + avg_rating*10 + campaign_rate*20 + 40
weighted_score(collab_rate, avg, campaign_rate) ==
  Rat(30 * collab_rate[1] * avg[2] * campaign_rate[2]
        + 10 * avg[1] * collab_rate[2] * campaign_rate[2]
        + 20 * campaign_rate[1] * collab_rate[2] * avg[2]
        + 40 * collab_rate[2] * avg[2] * campaign_rate[2],
      collab_rate[2] * avg[2] * campaign_rate[2])

\* the score without min(max(score, 0), 100)
unclamped_score(score) == score

\* min(max(score, 0), 100)
clamp_score(score) ==
  IF RatLess(<<100, 1>>, score) THEN <<100, 1>>
  ELSE IF RatLess(score, <<0, 1>>) THEN <<0, 1>> ELSE score

\* the row calculate_trust_score writes from the three query results
trust_row(collab_res, review_res, campaign_res) ==
  [score |-> clamp_score(weighted_score(completion_rate(collab_res),
                                        avg_rating(review_res),
                                        completion_rate(campaign_res))),
   reliability |-> completion_rate(collab_res),
   completion_rate |-> completion_rate(campaign_res)]

\* INSERT ... ON CONFLICT(vendor_id) DO UPDATE SET score = score + excluded.score
insert_or_add(scores, v, row) ==
  [x \in DOMAIN scores \cup {v} |->
     IF x # v THEN scores[x]
     ELSE IF v \in DOMAIN scores
       THEN [row EXCEPT !.score = Rat(scores[v].score[1] * row.score[2]
                                        + row.score[1] * scores[v].score[2],
                                      scores[v].score[2] * row.score[2])]
     ELSE row]

\* DELETE FROM trust_scores, then INSERT: the vendor's row is the only one left
insert_into_emptied(scores, v, row) == [x \in {v} |-> row]

\* INSERT OR REPLACE INTO trust_scores: vendor_id is the primary key
insert_or_replace(scores, v, row) ==
  [x \in DOMAIN scores \cup {v} |-> IF x = v THEN row ELSE scores[x]]

\* calculate_trust_score(v) run on its own connection against the committed
\* tables.  writer_open: another connection holds an open write transaction,
\* so INSERT OR REPLACE cannot take the write lock and sqlite3 raises
\* OperationalError('database is locked') after the busy timeout.
calculate_trust_score(scores, revs, collabs, camps, v, writer_open) ==
  LET row == trust_row(collab_result(collabs, v), review_result(revs, v),
                       campaign_result(camps, v))
  IN IF writer_open
       THEN [raised |-> TRUE, scores |-> scores, value |-> "OperationalError"]
       ELSE [raised |-> FALSE, scores |-> insert_or_replace(scores, v, row),
             value |-> row.score]


\* CHECK(rating >= 1 AND rating <= 5) of table reviews
rating_check(rating) == rating >= 1 /\ rating <= 5

\* TrustSystem.add_review: INSERT on the method's own connection (not yet
\* committed), then calculate_trust_score on a second connection while the
\* first still holds the write transaction, then commit.  When the nested
\* call raises, the exception leaves add_review before conn.commit() and the
\* pending INSERT is rolled back.
add_review(scores, revs, collabs, camps, reviewer_id, v, rating) ==
  IF ~rating_check(rating)
    THEN [raised |-> TRUE, scores |-> scores, reviews |-> revs,
          value |-> "IntegrityError"]
    ELSE LET pending == Append(revs, [reviewer_id |-> reviewer_id,
                                      vendor_id |-> v, rating |-> rating])
             calc == calculate_trust_score(scores, revs, collabs, camps, v, TRUE)
         IN IF calc.raised
              THEN [raised |-> TRUE, scores |-> scores, reviews |-> revs,
                    value |-> calc.value]
              ELSE [raised |-> FALSE, scores |-> calc.scores,
                    reviews |-> pending, value |-> Len(pending)]

\* TrustSystem.add_trust_event: same shape as add_review on table trust_events
add_trust_event(scores, events, revs, collabs, camps, v, event_type) ==
  LET pending == Append(events, [vendor_id |-> v, event_type |-> event_type])
      calc == calculate_trust_score(scores, revs, collabs, camps, v, TRUE)
  IN IF calc.raised
       THEN [raised |-> TRUE, scores |-> scores, events |-> events,
             value |-> calc.value]
       ELSE [raised |-> FALSE, scores |-> calc.scores, events |-> pending,
             value |-> "None"]

\* CollaborationEngine.initiate_collaboration: INSERT ... 'proposed', commit
initiate_collaboration(collabs, vendor1_id, vendor2_id) ==
  Append(collabs, [vendor1_id |-> vendor1_id, vendor2_id |-> vendor2_id,
                   status |-> "proposed"])

\* AdvertisingManager.create_campaign: INSERT ... 'pending', commit
create_campaign(camps, v) ==
  Append(camps, [vendor_id |-> v, status |-> "pending"])

(* ------------------------- vendor profile rows ------------------------- *)
\* A text column holds a string or NULL; location text is kept as its
\* comma-separated tokens ("San Francisco, CA" is <<"San Francisco", " CA">>).
\* A JSON column holds NULL or the text json.dumps wrote.  budget is a number
\* or NULL.
NullText == "NULL"
NullLocation == <<>>
NullJson == [null |-> TRUE, items |-> <<>>]
NullNumber == 0 - 1

\* json.dumps(list): the stored text decodes to the same list
json_dumps(items) == [null |-> FALSE, items |-> items]

\* json.loads(column): the list, or TypeError when the column is NULL
json_loads(column) ==
  IF column.null THEN [raised |-> TRUE, value |-> <<>>]
  ELSE [raised |-> FALSE, value |-> column.items]

\* set(list)
SetOf(items) == {items[i] : i \in DOMAIN items}

\* truth value of a location column: None and '' are false
location_truthy(location) == location # NullLocation /\ location # <<"">>

\* budget or 0
budget_or_zero(budget) == IF budget = NullNumber THEN 0 ELSE budget

Min(a, b) == IF a <= b THEN a ELSE b
Max(a, b) == IF a >= b THEN a ELSE b

RatAdd(p, q) == Rat(p[1] * q[2] + q[1] * p[2], p[2] * q[2])

(* ---------------- CommunityMatching.calculate_similarity --------------- *)
\* weights in hundredths: 0.4, 0.2, 0.15, 0.15, 0.1
industry_part(vendor1, vendor2) ==
  IF vendor1.industry = vendor2.industry THEN 40 ELSE 0

location_part(vendor1, vendor2) ==
  IF location_truthy(vendor1.location) /\ location_truthy(vendor2.location)
    THEN IF vendor1.location = vendor2.location THEN 20
         ELSE IF vendor1.location[1] = vendor2.location[1] THEN 10 ELSE 0
    ELSE 0

business_type_part(vendor1, vendor2) ==
  IF vendor1.business_type = vendor2.business_type THEN 15 ELSE 0

audience_part(audience1, audience2) ==
  IF audience1 # {} /\ audience2 # {}
    THEN Rat(15 * Cardinality(audience1 \cap audience2),
             Cardinality(audience1 \cup audience2))
    ELSE <<0, 1>>

\* the first budget over the larger one, in place of min over max
budget_part_of_first(budget1, budget2) ==
  IF budget1 > 0 /\ budget2 > 0
    THEN Rat(10 * budget1, Max(budget1, budget2))
    ELSE <<0, 1>>

budget_part(budget1, budget2) ==
  IF budget1 > 0 /\ budget2 > 0
    THEN Rat(10 * Min(budget1, budget2), Max(budget1, budget2))
    ELSE <<0, 1>>

\* factors += 0.4; += 0.2; += 0.15; += 0.15; += 0.1 : each one unconditional
factors_counted(audience1, audience2, budget1, budget2) == 40 + 20 + 15 + 15 + 10

calculate_similarity(vendor1, vendor2) ==
  LET a1 == json_loads(vendor1.target_audience)
      a2 == json_loads(vendor2.target_audience)
      audience1 == SetOf(a1.value)
      audience2 == SetOf(a2.value)
      budget1 == budget_or_zero(vendor1.budget)
      budget2 == budget_or_zero(vendor2.budget)
      fixed == industry_part(vendor1, vendor2) + location_part(vendor1, vendor2)
                 + business_type_part(vendor1, vendor2)
      score == RatAdd(RatAdd(<<fixed, 1>>, audience_part(audience1, audience2)),
                      budget_part(budget1, budget2))
      factors == factors_counted(audience1, audience2, budget1, budget2)
  IN IF a1.raised \/ a2.raised
       THEN [raised |-> TRUE, value |-> <<0, 1>>]
       ELSE [raised |-> FALSE,
             value |-> IF factors > 0 THEN Rat(score[1], score[2] * factors)
                       ELSE <<0, 1>>]

(* ---------------- CommunityMatching.find_similar_vendors --------------- *)
SimilarityThreshold == <<3, 10>>     \* similarity_score > 0.3
GroupThreshold == <<5, 10>>          \* s['similarity_score'] > 0.5
GroupLimit == 5                      \* find_similar_vendors(vendor_id, limit=5)
DefaultLimit == 10                   \* limit: int = 10

\* get_common_features decodes both goals columns
get_common_features(vendor1, vendor2) ==
  LET g1 == json_loads(vendor1.goals)
      g2 == json_loads(vendor2.goals)
  IN [raised |-> g1.raised \/ g2.raised,
      value |-> SetOf(g1.value) \cap SetOf(g2.value)]

\* the sort key of a result entry: x['similarity_score'] or x['match_score']
SortKey(e) ==
  IF "similarity_score" \in DOMAIN e THEN e.similarity_score
  ELSE <<e.match_score, 1>>

\* an unstable descending sort: insert e before the entries whose key equals e's
RECURSIVE InsertBeforeEqual(_, _)
InsertBeforeEqual(sorted, e) ==
  IF sorted = <<>> THEN <<e>>
  ELSE IF ~RatLess(SortKey(e), SortKey(Head(sorted))) THEN <<e>> \o sorted
  ELSE <<Head(sorted)>> \o InsertBeforeEqual(Tail(sorted), e)

\* list.sort(key=..., reverse=True): stable, descending.  Insert e after the
\* entries whose key is at least e's.
RECURSIVE InsertDescending(_, _)
InsertDescending(sorted, e) ==
  IF sorted = <<>> THEN <<e>>
  ELSE IF RatLess(SortKey(Head(sorted)), SortKey(e)) THEN <<e>> \o sorted
  ELSE <<Head(sorted)>> \o InsertDescending(Tail(sorted), e)

RECURSIVE SortDescending(_)
SortDescending(entries) ==
  IF entries = <<>> THEN <<>>
  ELSE InsertDescending(SortDescending(SubSeq(entries, 1, Len(entries) - 1)),
                        entries[Len(entries)])

Truncate(entries, limit) == SubSeq(entries, 1, Min(limit, Len(entries)))

\* the same loop keeping a candidate when similarity_score >= 0.3
RECURSIVE similarities_from_at_least(_, _, _)
similarities_from_at_least(profiles, vendor_id, i) ==
  IF i > Len(profiles) THEN [raised |-> FALSE, value |-> <<>>]
  ELSE IF i = vendor_id THEN similarities_from_at_least(profiles, vendor_id, i + 1)
  ELSE
    LET sim == calculate_similarity(profiles[vendor_id], profiles[i])
        keep == ~sim.raised /\ ~RatLess(sim.value, SimilarityThreshold)
        common == get_common_features(profiles[vendor_id], profiles[i])
        rest == similarities_from_at_least(profiles, vendor_id, i + 1)
    IN IF sim.raised \/ (keep /\ common.raised) \/ rest.raised
         THEN [raised |-> TRUE, value |-> <<>>]
         ELSE [raised |-> FALSE,
               value |-> IF keep
                           THEN <<[vendor_id |-> i, similarity_score |-> sim.value]>>
                                  \o rest.value
                           ELSE rest.value]

\* the same loop over SELECT * FROM vendor_profiles, without WHERE vendor_id != ?
RECURSIVE similarities_from_all_rows(_, _, _)
similarities_from_all_rows(profiles, vendor_id, i) ==
  IF i > Len(profiles) THEN [raised |-> FALSE, value |-> <<>>]
  ELSE
    LET sim == calculate_similarity(profiles[vendor_id], profiles[i])
        keep == ~sim.raised /\ RatLess(SimilarityThreshold, sim.value)
        common == get_common_features(profiles[vendor_id], profiles[i])
        rest == similarities_from_all_rows(profiles, vendor_id, i + 1)
    IN IF sim.raised \/ (keep /\ common.raised) \/ rest.raised
         THEN [raised |-> TRUE, value |-> <<>>]
         ELSE [raised |-> FALSE,
               value |-> IF keep
                           THEN <<[vendor_id |-> i, similarity_score |-> sim.value]>>
                                  \o rest.value
                           ELSE rest.value]

\* the loop over all_vendors from candidate i on: the entries appended, or the
\* exception a candidate raised
RECURSIVE similarities_from(_, _, _)
similarities_from(profiles, vendor_id, i) ==
  IF i > Len(profiles) THEN [raised |-> FALSE, value |-> <<>>]
  ELSE IF i = vendor_id THEN similarities_from(profiles, vendor_id, i + 1)
  ELSE
    LET sim == calculate_similarity(profiles[vendor_id], profiles[i])
        keep == ~sim.raised /\ RatLess(SimilarityThreshold, sim.value)
        common == get_common_features(profiles[vendor_id], profiles[i])
        rest == similarities_from(profiles, vendor_id, i + 1)
    IN IF sim.raised \/ (keep /\ common.raised) \/ rest.raised
         THEN [raised |-> TRUE, value |-> <<>>]
         ELSE [raised |-> FALSE,
               value |-> IF keep
                           THEN <<[vendor_id |-> i, similarity_score |-> sim.value]>>
                                  \o rest.value
                           ELSE rest.value]

find_similar_vendors(profiles, vendor_id, limit) ==
  IF vendor_id \notin DOMAIN profiles THEN [raised |-> FALSE, value |-> <<>>]
  ELSE
    LET found == similarities_from(profiles, vendor_id, 1)
    IN IF found.raised THEN found
       ELSE [raised |-> FALSE,
             value |-> Truncate(SortDescending(found.value), limit)]

(* -------------- CommunityMatching.create_community_groups -------------- *)
\* the loop over vendor_ids from vendor_id on, with the groups formed and the
\* ids processed so far
RECURSIVE groups_from(_, _, _, _)
groups_from(profiles, vendor_id, groups, processed) ==
  IF vendor_id > Len(profiles) THEN [raised |-> FALSE, value |-> groups]
  ELSE IF vendor_id \in processed
    THEN groups_from(profiles, vendor_id + 1, groups, processed)
  ELSE
    LET similar == find_similar_vendors(profiles, vendor_id, GroupLimit)
        Close(entry) == RatLess(GroupThreshold, entry.similarity_score)
        close == SelectSeq(similar.value, Close)
        similar_ids == [k \in DOMAIN close |-> close[k].vendor_id]
        group == <<vendor_id>> \o similar_ids
    IN IF similar.raised THEN [raised |-> TRUE, value |-> <<>>]
       ELSE IF similar_ids # <<>>
         THEN groups_from(profiles, vendor_id + 1, Append(groups, group),
                          processed \cup SetOf(group))
       ELSE groups_from(profiles, vendor_id + 1, groups, processed \cup {vendor_id})

create_community_groups(profiles) == groups_from(profiles, 1, <<>>, {})

(* ------------ CollaborationEngine.find_collaboration_matches ----------- *)
complementary_pairs ==
  << <<"restaurant", "food_delivery">>, <<"retail", "logistics">>,
     <<"software", "consulting">>, <<"photography", "real_estate">>,
     <<"event_planning", "catering">> >>

are_industries_complementary(industry1, industry2) ==
  \E k \in DOMAIN complementary_pairs :
    \/ industry1 = complementary_pairs[k][1] /\ industry2 = complementary_pairs[k][2]
    \/ industry1 = complementary_pairs[k][2] /\ industry2 = complementary_pairs[k][1]

\* skill_map.get(industry, [])
skill_map(industry) ==
  CASE industry = "restaurant" -> {"culinary", "customer_service", "inventory_management"}
    [] industry = "technology" -> {"programming", "product_development", "technical_support"}
    [] industry = "retail" -> {"sales", "merchandising", "customer_relations"}
    [] industry = "consulting" -> {"strategy", "analysis", "client_management"}
    [] industry = "creative" -> {"design", "content_creation", "branding"}
    [] OTHER -> {}

\* the test inverted: two or more shared skills
has_shared_skills(vendor1, vendor2) ==
  Cardinality(skill_map(vendor1.industry) \cap skill_map(vendor2.industry)) >= 2

has_complementary_skills(vendor1, vendor2) ==
  Cardinality(skill_map(vendor1.industry) \cap skill_map(vendor2.industry)) < 2

\* match_score += len(common_goals) * 5
goal_points(common_goals) ==
  IF common_goals # {} THEN Cardinality(common_goals) * 5 ELSE 0

MatchThreshold == 40                 \* match_score >= 40
MatchLimit == 10                     \* matches[:10]

\* the score one candidate gets in the loop, or the exception it raises
collaboration_score(requester, vendor) ==
  LET g1 == json_loads(requester.goals)
      g2 == json_loads(vendor.goals)
      common_goals == SetOf(g1.value) \cap SetOf(g2.value)
  IN [raised |-> g1.raised \/ g2.raised,
      value |->
        (IF are_industries_complementary(requester.industry, vendor.industry)
           THEN 30 ELSE 0)
        + (IF requester.location = vendor.location THEN 20 ELSE 0)
        + goal_points(common_goals)
        + (IF has_complementary_skills(requester, vendor) THEN 25 ELSE 0)]

\* find_synergy_areas: vendor1['budget'] < 5000 or vendor2['budget'] < 5000
\* raises TypeError on the NULL budget it compares; a NULL target_audience is
\* skipped and both goals columns were already decoded by the caller
find_synergy_areas(vendor1, vendor2) ==
  [raised |-> \/ vendor1.budget = NullNumber
              \/ (vendor1.budget >= 5000 /\ vendor2.budget = NullNumber),
   value |-> {}]

\* the same loop keeping a candidate when match_score > 40
RECURSIVE matches_from_above(_, _, _)
matches_from_above(profiles, vendor_id, i) ==
  IF i > Len(profiles) THEN [raised |-> FALSE, value |-> <<>>]
  ELSE IF i = vendor_id THEN matches_from_above(profiles, vendor_id, i + 1)
  ELSE
    LET scored == collaboration_score(profiles[vendor_id], profiles[i])
        keep == ~scored.raised /\ scored.value > MatchThreshold
        synergy == find_synergy_areas(profiles[vendor_id], profiles[i])
        rest == matches_from_above(profiles, vendor_id, i + 1)
    IN IF scored.raised \/ (keep /\ synergy.raised) \/ rest.raised
         THEN [raised |-> TRUE, value |-> <<>>]
         ELSE [raised |-> FALSE,
               value |-> IF keep
                           THEN <<[vendor_id |-> i, match_score |-> scored.value]>>
                                  \o rest.value
                           ELSE rest.value]

RECURSIVE matches_from(_, _, _)
matches_from(profiles, vendor_id, i) ==
  IF i > Len(profiles) THEN [raised |-> FALSE, value |-> <<>>]
  ELSE IF i = vendor_id THEN matches_from(profiles, vendor_id, i + 1)
  ELSE
    LET scored == collaboration_score(profiles[vendor_id], profiles[i])
        keep == ~scored.raised /\ scored.value >= MatchThreshold
        synergy == find_synergy_areas(profiles[vendor_id], profiles[i])
        rest == matches_from(profiles, vendor_id, i + 1)
    IN IF scored.raised \/ (keep /\ synergy.raised) \/ rest.raised
         THEN [raised |-> TRUE, value |-> <<>>]
         ELSE [raised |-> FALSE,
               value |-> IF keep
                           THEN <<[vendor_id |-> i, match_score |-> scored.value]>>
                                  \o rest.value
                           ELSE rest.value]

\* the same call without the early return: dict(None) raises TypeError
find_collaboration_matches_unguarded(profiles, vendor_id) ==
  IF vendor_id \notin DOMAIN profiles THEN [raised |-> TRUE, value |-> <<>>]
  ELSE
    LET found == matches_from(profiles, vendor_id, 1)
    IN IF found.raised THEN found
       ELSE [raised |-> FALSE,
             value |-> Truncate(SortDescending(found.value), MatchLimit)]

find_collaboration_matches(profiles, vendor_id) ==
  IF vendor_id \notin DOMAIN profiles THEN [raised |-> FALSE, value |-> <<>>]
  ELSE
    LET found == matches_from(profiles, vendor_id, 1)
    IN IF found.raised THEN found
       ELSE [raised |-> FALSE,
             value |-> Truncate(SortDescending(found.value), MatchLimit)]

(* ----------------------- trust: calls and requests ---------------------- *)
Review(reviewer_id, v, rating) ==
  [reviewer_id |-> reviewer_id, vendor_id |-> v, rating |-> rating]

\* review tables the database file may hold when the process starts
\* (init_db creates the tables only IF NOT EXISTS)
InitialReviews ==
  { <<>>, <<Review(1, 1, 5), Review(1, 1, 2)>>,
    <<Review(1, 2, 4), Review(1, 1, 3)>> }

Procs == {1, 2}
NoRequest == [kind |-> "none", v |-> 0]
NothingFetched == [collab |-> <<0, 0>>, review |-> <<0, 0>>, campaign |-> <<0, 0>>]

AuthIdle == sessions = <<>>

ConcIdle ==
  /\ pc = [p \in Procs |-> "idle"]
  /\ req = [p \in Procs |-> NoRequest]
  /\ fetched = [p \in Procs |-> NothingFetched]
  /\ write_lock = 0

NoAnswer ==
  [op |-> "none", v |-> 0, w |-> 0, raised |-> FALSE, score |-> <<0, 1>>,
   entries |-> <<>>, groups |-> <<>>]

MatchIdle ==
  /\ vendor_profiles = <<>>
  /\ answer = NoAnswer

ContentIdle ==
  /\ content_calendar = <<>>
  /\ jobs = <<>>
  /\ clock = 0
  /\ running = 0

NotScored == 0 - 1
NoPitchScore == [pitch_id |-> 0, score |-> NotScored]
PitchIdle ==
  /\ fundraising_pitches = <<>>
  /\ pitch_score = NoPitchScore
  /\ investors = <<>>

InitTrust ==
  /\ AuthIdle
  /\ ConcIdle
  /\ MatchIdle
  /\ ContentIdle
  /\ PitchIdle
  /\ reviews \in InitialReviews
  /\ collaborations = <<>>
  /\ ad_campaigns = <<>>
  /\ trust_scores = <<>>
  /\ trust_events = <<>>
  /\ last = NoCall

\* what the caller sees: "none" for a normal return, else the exception raised
Outcome(r) == IF r.raised THEN r.value ELSE "none"

RowsLeft == Len(collaborations) + Len(ad_campaigns) < MaxRows

\* trust_system.calculate_trust_score(vendor_id), as app.create_vendor_profile calls it;
\* last keeps the value returned and whether the call before it was the same call
CalculateTrustScoreCall(v) ==
  LET r == calculate_trust_score(trust_scores, reviews, collaborations,
                                 ad_campaigns, v, FALSE)
  IN /\ trust_scores' = r.scores
     /\ last' = [op |-> "calculate_trust_score", v |-> v, error |-> Outcome(r),
                 value |-> r.value,
                 again |-> last.op = "calculate_trust_score" /\ last.v = v]
     /\ UNCHANGED <<reviews, collaborations, ad_campaigns, trust_events>>
     /\ UNCHANGED nonTrustVars

\* trust_system.add_review(reviewer_id, vendor_id, rating, comment)
AddReviewCall(reviewer_id, v, rating) ==
  LET r == add_review(trust_scores, reviews, collaborations, ad_campaigns,
                      reviewer_id, v, rating)
  IN /\ reviews' = r.reviews
     /\ trust_scores' = r.scores
     /\ last' = [op |-> "add_review", v |-> v, error |-> Outcome(r)]
     /\ UNCHANGED <<collaborations, ad_campaigns, trust_events>>
     /\ UNCHANGED nonTrustVars

\* trust_system.add_trust_event(vendor_id, event_type, impact, description)
AddTrustEventCall(v) ==
  LET r == add_trust_event(trust_scores, trust_events, reviews, collaborations,
                           ad_campaigns, v, "event")
  IN /\ trust_events' = r.events
     /\ trust_scores' = r.scores
     /\ last' = [op |-> "add_trust_event", v |-> v, error |-> Outcome(r)]
     /\ UNCHANGED <<reviews, collaborations, ad_campaigns>>
     /\ UNCHANGED nonTrustVars

\* POST /api/collaboration/initiate.  user: validate_session()'s result;
\* vendor ids 0 stand for a missing (falsy) field.
InitiateCollaborationRequest(user, vendor1_id, vendor2_id) ==
  IF user = None
    THEN /\ last' = [op |-> "initiate_collaboration", v |-> 0,
                     error |-> "401"]
         /\ UNCHANGED trustVars /\ UNCHANGED nonTrustVars
  ELSE IF vendor1_id = 0 \/ vendor2_id = 0
    THEN /\ last' = [op |-> "initiate_collaboration", v |-> 0,
                     error |-> "400"]
         /\ UNCHANGED trustVars /\ UNCHANGED nonTrustVars
  ELSE
    LET stored == initiate_collaboration(collaborations, vendor1_id, vendor2_id)
        e1 == add_trust_event(trust_scores, trust_events, reviews, stored,
                              ad_campaigns, vendor1_id, "collaboration_initiated")
        e2 == add_trust_event(e1.scores, e1.events, reviews, stored,
                              ad_campaigns, vendor2_id, "collaboration_received")
        done == IF e1.raised THEN e1 ELSE e2
    IN /\ RowsLeft
       /\ collaborations' = stored
       /\ trust_scores' = done.scores
       /\ trust_events' = done.events
       /\ last' = [op |-> "initiate_collaboration", v |-> 0,
                   error |-> IF done.raised THEN "400" ELSE "none"]
       /\ UNCHANGED <<reviews, ad_campaigns>>
       /\ UNCHANGED nonTrustVars

\* POST /api/advertising/campaign/create
CreateAdCampaignRequest(user, v) ==
  IF user = None
    THEN /\ last' = [op |-> "create_ad_campaign", v |-> 0, error |-> "401"]
         /\ UNCHANGED trustVars /\ UNCHANGED nonTrustVars
  ELSE IF v = 0
    THEN /\ last' = [op |-> "create_ad_campaign", v |-> 0, error |-> "400"]
         /\ UNCHANGED trustVars /\ UNCHANGED nonTrustVars
  ELSE
    LET stored == create_campaign(ad_campaigns, v)
        e == add_trust_event(trust_scores, trust_events, reviews,
                             collaborations, stored, v, "campaign_created")
    IN /\ RowsLeft
       /\ ad_campaigns' = stored
       /\ trust_scores' = e.scores
       /\ trust_events' = e.events
       /\ last' = [op |-> "create_ad_campaign", v |-> 0,
                   error |-> IF e.raised THEN "400" ELSE "none"]
       /\ UNCHANGED <<reviews, collaborations>>
       /\ UNCHANGED nonTrustVars

\* a collaboration is completed (status transitions happen outside this code)
CollaborationCompleted(i) ==
  /\ collaborations[i].status # "completed"
  /\ collaborations' = [collaborations EXCEPT ![i].status = "completed"]
  /\ last' = [op |-> "external", v |-> 0, error |-> "none"]
  /\ UNCHANGED <<reviews, ad_campaigns, trust_scores, trust_events>>
  /\ UNCHANGED nonTrustVars

\* a campaign is completed (status transitions happen outside this code)
CampaignCompleted(i) ==
  /\ ad_campaigns[i].status # "completed"
  /\ ad_campaigns' = [ad_campaigns EXCEPT ![i].status = "completed"]
  /\ last' = [op |-> "external", v |-> 0, error |-> "none"]
  /\ UNCHANGED <<reviews, collaborations, trust_scores, trust_events>>
  /\ UNCHANGED nonTrustVars

Users == {None, 1}
RequestVendorIds == {0} \cup VendorIds
RatingInputs == {0, 1, 5, 6}

NextTrust ==
  \/ \E v \in VendorIds : CalculateTrustScoreCall(v)
  \/ \E r \in ReviewerIds, v \in VendorIds, g \in RatingInputs : AddReviewCall(r, v, g)
  \/ \E v \in VendorIds : AddTrustEventCall(v)
  \/ \E u \in Users, a, b \in RequestVendorIds : InitiateCollaborationRequest(u, a, b)
  \/ \E u \in Users, v \in RequestVendorIds : CreateAdCampaignRequest(u, v)
  \/ \E i \in DOMAIN collaborations : CollaborationCompleted(i)
  \/ \E i \in DOMAIN ad_campaigns : CampaignCompleted(i)

SpecTrust == InitTrust /\ [][NextTrust]_vars

(* ------------- trust: the score over tables already filled ------------- *)
Collaboration(vendor1_id, vendor2_id, status) ==
  [vendor1_id |-> vendor1_id, vendor2_id |-> vendor2_id, status |-> status]
Campaign(v, status) == [vendor_id |-> v, status |-> status]

\* collaborations tables: none; three of vendor 1, two completed; one completed
ScoreCollaborations ==
  { <<>>,
    <<Collaboration(1, 2, "completed"), Collaboration(2, 1, "completed"),
      Collaboration(1, 2, "proposed")>>,
    <<Collaboration(2, 1, "completed")>>,
    <<Collaboration(1, 2, "proposed")>> }

\* reviews tables: none; average 4.0 for vendor 1; all ones; all fives
ScoreReviews ==
  { <<>>, <<Review(1, 1, 5), Review(2, 1, 3)>>, <<Review(1, 1, 1)>>,
    <<Review(1, 1, 5), Review(1, 2, 5)>> }

\* ad_campaigns tables: none; five of vendor 1, three completed; one completed
ScoreCampaigns ==
  { <<>>,
    <<Campaign(1, "completed"), Campaign(1, "pending"), Campaign(1, "completed"),
      Campaign(1, "completed"), Campaign(1, "active")>>,
    <<Campaign(1, "completed"), Campaign(2, "completed")>> }

InitScore ==
  /\ AuthIdle
  /\ ConcIdle
  /\ MatchIdle
  /\ ContentIdle
  /\ PitchIdle
  /\ reviews \in ScoreReviews
  /\ collaborations \in ScoreCollaborations
  /\ ad_campaigns \in ScoreCampaigns
  /\ trust_scores = <<>>
  /\ trust_events = <<>>
  /\ last = NoCall

NextScore ==
  \/ \E v \in VendorIds : CalculateTrustScoreCall(v)
  \/ \E i \in DOMAIN collaborations : CollaborationCompleted(i)
  \/ \E i \in DOMAIN ad_campaigns : CampaignCompleted(i)

SpecScore == InitScore /\ [][NextScore]_vars

(* ------------- trust: two requests, statement by statement -------------- *)
\* Each request runs the statements of its handler in order; the statements
\* of the two requests interleave.  A statement that writes needs SQLite's
\* write lock: while another connection holds it the statement waits, and
\* after the busy timeout it raises OperationalError.  SELECTs read the
\* committed tables (no transaction spans calculate_trust_score's queries).
RequestKinds == {"add_review", "create_campaign", "recalculate"}

\* database files the two requests may find: every vendor's score is current
InitialCampaigns == { <<>>, <<[vendor_id |-> 1, status |-> "completed"]>> }

InitConc ==
  /\ AuthIdle
  /\ ConcIdle
  /\ MatchIdle
  /\ ContentIdle
  /\ PitchIdle
  /\ reviews \in InitialReviews
  /\ collaborations = <<>>
  /\ ad_campaigns \in InitialCampaigns
  /\ trust_events = <<>>
  /\ trust_scores = [v \in VendorIds |->
        trust_row(collab_result(collaborations, v), review_result(reviews, v),
                  campaign_result(ad_campaigns, v))]
  /\ last = NoCall

concRest == <<last, matchVars, contentVars, pitchVars, authVars>>

\* a request arrives: add_review(1, v, 5, ..), POST campaign/create for v,
\* or calculate_trust_score(v) called directly
Arrive(p, kind, v) ==
  /\ pc[p] = "idle"
  /\ req' = [req EXCEPT ![p] = [kind |-> kind, v |-> v]]
  /\ pc' = [pc EXCEPT ![p] = CASE kind = "add_review" -> "insert"
                                [] kind = "create_campaign" -> "store_campaign"
                                [] OTHER -> "select_collab"]
  /\ UNCHANGED <<trustVars, fetched, write_lock>> /\ UNCHANGED concRest

\* advertising_manager.create_campaign: INSERT, UPDATE, commit
StoreCampaign(p) ==
  /\ pc[p] = "store_campaign"
  /\ write_lock = 0
  /\ ad_campaigns' = create_campaign(ad_campaigns, req[p].v)
  /\ pc' = [pc EXCEPT ![p] = "insert"]
  /\ UNCHANGED <<reviews, collaborations, trust_scores, trust_events, req,
                 fetched, write_lock>>
  /\ UNCHANGED concRest

\* add_review / add_trust_event: cursor.execute(INSERT ...) opens the write
\* transaction of the method's connection; the row stays uncommitted
InsertPending(p) ==
  /\ pc[p] = "insert"
  /\ write_lock = 0
  /\ write_lock' = p
  /\ pc' = [pc EXCEPT ![p] = "select_collab"]
  /\ UNCHANGED <<trustVars, req, fetched>> /\ UNCHANGED concRest

\* calculate_trust_score: the three SELECTs, each its own statement
SelectCollab(p) ==
  /\ pc[p] = "select_collab"
  /\ fetched' = [fetched EXCEPT ![p].collab = collab_result(collaborations, req[p].v)]
  /\ pc' = [pc EXCEPT ![p] = "select_reviews"]
  /\ UNCHANGED <<trustVars, req, write_lock>> /\ UNCHANGED concRest

SelectReviews(p) ==
  /\ pc[p] = "select_reviews"
  /\ fetched' = [fetched EXCEPT ![p].review = review_result(reviews, req[p].v)]
  /\ pc' = [pc EXCEPT ![p] = "select_campaigns"]
  /\ UNCHANGED <<trustVars, req, write_lock>> /\ UNCHANGED concRest

SelectCampaigns(p) ==
  /\ pc[p] = "select_campaigns"
  /\ fetched' = [fetched EXCEPT ![p].campaign = campaign_result(ad_campaigns, req[p].v)]
  /\ pc' = [pc EXCEPT ![p] = "upsert"]
  /\ UNCHANGED <<trustVars, req, write_lock>> /\ UNCHANGED concRest

\* calculate_trust_score: INSERT OR REPLACE and commit on its own connection,
\* then (add_review, add_trust_event) the caller's conn.commit()
Upsert(p) ==
  /\ pc[p] = "upsert"
  /\ write_lock = 0
  /\ trust_scores' = insert_or_replace(trust_scores, req[p].v,
        trust_row(fetched[p].collab, fetched[p].review, fetched[p].campaign))
  /\ pc' = [pc EXCEPT ![p] = "done"]
  /\ UNCHANGED <<reviews, collaborations, ad_campaigns, trust_events, req,
                 fetched, write_lock>>
  /\ UNCHANGED concRest

\* the busy timeout of a writing statement expires: OperationalError leaves
\* the handler, its connections are closed and an open transaction is rolled back
BusyTimeout(p) ==
  /\ pc[p] \in {"store_campaign", "insert", "upsert"}
  /\ write_lock # 0
  /\ write_lock' = IF write_lock = p THEN 0 ELSE write_lock
  /\ pc' = [pc EXCEPT ![p] = "failed"]
  /\ UNCHANGED <<trustVars, req, fetched>> /\ UNCHANGED concRest

NextConc ==
  \/ \E p \in Procs, k \in RequestKinds, v \in VendorIds : Arrive(p, k, v)
  \/ \E p \in Procs : StoreCampaign(p)
  \/ \E p \in Procs : InsertPending(p)
  \/ \E p \in Procs : SelectCollab(p)
  \/ \E p \in Procs : SelectReviews(p)
  \/ \E p \in Procs : SelectCampaigns(p)
  \/ \E p \in Procs : Upsert(p)
  \/ \E p \in Procs : BusyTimeout(p)

SpecConc == InitConc /\ [][NextConc]_vars

(* ------------------- matching: profiles and calls ---------------------- *)
MaxVendors == 3       \* rows inserted into vendor_profiles

\* profile_data.get(key, default)
Get(profile_data, key, default) ==
  IF key \in DOMAIN profile_data THEN profile_data[key] ELSE default

\* UIDManager.create_user: INSERT INTO vendor_profiles (user_id, business_name);
\* every column the statement does not name is NULL
registration_row(username) ==
  [business_name |-> username, business_type |-> NullText,
   industry |-> NullText, location |-> NullLocation,
   target_audience |-> NullJson, budget |-> NullNumber, goals |-> NullJson]

\* VendorProfileManager.create_vendor_profile: the row it inserts
profile_row(profile_data) ==
  [business_name |-> Get(profile_data, "business_name", NullText),
   business_type |-> Get(profile_data, "business_type", NullText),
   industry |-> Get(profile_data, "industry", NullText),
   location |-> Get(profile_data, "location", NullLocation),
   target_audience |-> json_dumps(Get(profile_data, "target_audience", <<>>)),
   budget |-> Get(profile_data, "budget", 0),
   goals |-> json_dumps(Get(profile_data, "goals", <<>>))]

SixGoals == <<"g1", "g2", "g3", "g4", "g5", "g6">>

\* the profile_data of the requests made
ProfileInputs ==
  { [business_name |-> "A", business_type |-> "LLC", industry |-> "technology",
     location |-> <<"Los Angeles", " CA">>, target_audience |-> <<"x">>,
     budget |-> 1000, goals |-> <<>>],
    [business_name |-> "B", business_type |-> "LLC", industry |-> "technology",
     location |-> <<"San Francisco", " CA">>, target_audience |-> <<"x", "y">>,
     budget |-> 8000, goals |-> SixGoals],
    [business_name |-> "C", business_type |-> "LLC", industry |-> "retail",
     location |-> <<"San Francisco", " CA">>, target_audience |-> <<"y">>,
     budget |-> 8000, goals |-> SixGoals],
    [business_name |-> "D", business_type |-> "LLC", industry |-> "logistics",
     location |-> <<"San Francisco", " CA">>, target_audience |-> <<>>,
     budget |-> 0, goals |-> SixGoals],
    [business_name |-> "E"] }

Usernames == {"u"}

InitMatch ==
  /\ AuthIdle
  /\ ConcIdle
  /\ reviews = <<>>
  /\ collaborations = <<>>
  /\ ad_campaigns = <<>>
  /\ trust_scores = <<>>
  /\ trust_events = <<>>
  /\ last = NoCall
  /\ MatchIdle
  /\ ContentIdle
  /\ PitchIdle

matchRest == <<trustVars, last, concVars, contentVars, pitchVars, authVars>>

\* uid_manager.create_user(username, email, password)
CreateUser(username) ==
  /\ Len(vendor_profiles) < MaxVendors
  /\ vendor_profiles' = Append(vendor_profiles, registration_row(username))
  /\ answer' = [NoAnswer EXCEPT !.op = "create_user", !.v = Len(vendor_profiles) + 1]
  /\ UNCHANGED matchRest

\* vendor_manager.create_vendor_profile(user_id, profile_data)
CreateVendorProfile(profile_data) ==
  /\ Len(vendor_profiles) < MaxVendors
  /\ vendor_profiles' = Append(vendor_profiles, profile_row(profile_data))
  /\ answer' = [NoAnswer EXCEPT !.op = "create_vendor_profile",
                                !.v = Len(vendor_profiles) + 1]
  /\ UNCHANGED matchRest

\* community_matching.calculate_similarity(vendor1, vendor2) on two stored rows
CalculateSimilarityCall(v, w) ==
  LET r == calculate_similarity(vendor_profiles[v], vendor_profiles[w])
  IN /\ answer' = [NoAnswer EXCEPT !.op = "calculate_similarity", !.v = v, !.w = w,
                                   !.raised = r.raised, !.score = r.value]
     /\ UNCHANGED vendor_profiles
     /\ UNCHANGED matchRest

\* community_matching.find_similar_vendors(vendor_id)
FindSimilarVendorsCall(v) ==
  LET r == find_similar_vendors(vendor_profiles, v, DefaultLimit)
  IN /\ answer' = [NoAnswer EXCEPT !.op = "find_similar_vendors", !.v = v,
                                   !.raised = r.raised, !.entries = r.value]
     /\ UNCHANGED vendor_profiles
     /\ UNCHANGED matchRest

\* collaboration_engine.find_collaboration_matches(vendor_id)
FindCollaborationMatchesCall(v) ==
  LET r == find_collaboration_matches(vendor_profiles, v)
  IN /\ answer' = [NoAnswer EXCEPT !.op = "find_collaboration_matches", !.v = v,
                                   !.raised = r.raised, !.entries = r.value]
     /\ UNCHANGED vendor_profiles
     /\ UNCHANGED matchRest

\* community_matching.create_community_groups()
CreateCommunityGroupsCall ==
  LET r == create_community_groups(vendor_profiles)
  IN /\ answer' = [NoAnswer EXCEPT !.op = "create_community_groups",
                                   !.raised = r.raised, !.groups = r.value]
     /\ UNCHANGED vendor_profiles
     /\ UNCHANGED matchRest

\* vendor ids asked for: the stored ones and one with no row
AskedVendorIds == 1 .. (Len(vendor_profiles) + 1)

NextMatch ==
  \/ \E u \in Usernames : CreateUser(u)
  \/ \E d \in ProfileInputs : CreateVendorProfile(d)
  \/ \E v, w \in DOMAIN vendor_profiles : CalculateSimilarityCall(v, w)
  \/ \E v \in AskedVendorIds : FindSimilarVendorsCall(v)
  \/ \E v \in AskedVendorIds : FindCollaborationMatchesCall(v)
  \/ CreateCommunityGroupsCall

SpecMatch == InitMatch /\ [][NextMatch]_vars

(* ---------------- matching: two stored profiles and calls --------------- *)
FourGoals == <<"g1", "g2", "g3", "g4">>
SanFrancisco == <<"San Francisco", " CA">>

\* two technology vendors of San Francisco, neither with a business_type
ScenarioVendorA ==
  [business_name |-> "A", industry |-> "technology", location |-> SanFrancisco,
   target_audience |-> <<"startups", "entrepreneurs">>, budget |-> 10000]
ScenarioVendorB ==
  [business_name |-> "B", industry |-> "technology", location |-> SanFrancisco,
   target_audience |-> <<"startups">>, budget |-> 8000]

\* the profile_data of the two profiles the table holds when the calls are made
PairInputs ==
  { ScenarioVendorA, ScenarioVendorB,
    [business_name |-> "F", business_type |-> "LLC", industry |-> "retail",
     location |-> SanFrancisco, target_audience |-> <<"families">>,
     budget |-> 8000, goals |-> FourGoals],
    [business_name |-> "G", business_type |-> "LLC", industry |-> "technology",
     location |-> <<"San Francisco", " NV">>, target_audience |-> <<>>,
     budget |-> 0, goals |-> FourGoals],
    [business_name |-> "H", business_type |-> "Corp", industry |-> "technology",
     location |-> SanFrancisco, target_audience |-> <<"families", "startups">>,
     budget |-> 8000, goals |-> FourGoals],
    [business_name |-> "I", business_type |-> "Corp", industry |-> "technology",
     location |-> SanFrancisco, target_audience |-> <<"students">>,
     budget |-> 2000, goals |-> <<"g1", "g2", "g3", "g7">>],
    [business_name |-> "J", business_type |-> "Corp", industry |-> "consulting",
     location |-> <<"">>, target_audience |-> <<"students">>,
     budget |-> 2000, goals |-> <<"g7">>],
    [business_name |-> "K", business_type |-> "LLC", industry |-> "technology",
     location |-> SanFrancisco, target_audience |-> <<"students">>,
     budget |-> 500, goals |-> FourGoals] }

InitPair ==
  /\ AuthIdle
  /\ ConcIdle
  /\ reviews = <<>>
  /\ collaborations = <<>>
  /\ ad_campaigns = <<>>
  /\ trust_scores = <<>>
  /\ trust_events = <<>>
  /\ last = NoCall
  /\ vendor_profiles \in
       {<<profile_row(d1), profile_row(d2)>> : d1 \in PairInputs, d2 \in PairInputs}
  /\ answer = NoAnswer
  /\ ContentIdle
  /\ PitchIdle

NextPair ==
  \/ \E v, w \in DOMAIN vendor_profiles : CalculateSimilarityCall(v, w)
  \/ \E v \in AskedVendorIds : FindSimilarVendorsCall(v)
  \/ \E v \in AskedVendorIds : FindCollaborationMatchesCall(v)

SpecPair == InitPair /\ [][NextPair]_vars

(* ------------- trust: the score store and the vendor table ------------- *)
\* add_review endpoint: if not 1 <= rating <= 5
rating_unchecked(rating) == TRUE

rating_in_range(rating) == 1 <= rating /\ rating <= 5

\* POST /api/trust/review.  user: validate_session()'s result; vendor id 0
\* and rating 0 are falsy, as a missing field is.  The reviewer is the
\* session's user.  Any exception of trust_system.add_review is answered with
\* 'Failed to add review'.
AddReviewRequest(user, vendor_id, rating) ==
  LET r == add_review(trust_scores, reviews, collaborations, ad_campaigns,
                      user, vendor_id, rating)
      response ==
        IF user = None THEN "401"
        ELSE IF vendor_id = 0 \/ rating = 0 THEN "Missing required fields"
        ELSE IF ~rating_in_range(rating) THEN "Rating must be between 1 and 5"
        ELSE IF r.raised THEN "Failed to add review"
        ELSE "none"
      called == response \in {"Failed to add review", "none"}
  IN /\ reviews' = IF called THEN r.reviews ELSE reviews
     /\ trust_scores' = IF called THEN r.scores ELSE trust_scores
     /\ last' = [op |-> "add_review_request", v |-> vendor_id,
                 error |-> response, rating |-> rating]
     /\ UNCHANGED <<collaborations, ad_campaigns, trust_events>>
     /\ UNCHANGED nonTrustVars

\* vendor_profiles tables: no vendor; vendor 1 only, as registration left it
StoreVendors == { <<>>, <<registration_row("u")>> }

InitStore ==
  /\ AuthIdle
  /\ ConcIdle
  /\ ContentIdle
  /\ PitchIdle
  /\ vendor_profiles \in StoreVendors
  /\ answer = NoAnswer
  /\ reviews \in InitialReviews
  /\ collaborations \in ScoreCollaborations
  /\ ad_campaigns = <<>>
  /\ trust_scores = <<>>
  /\ trust_events = <<>>
  /\ last = NoCall

NextStore ==
  \/ \E v \in VendorIds : CalculateTrustScoreCall(v)
  \/ \E r \in ReviewerIds, v \in VendorIds, g \in RatingInputs : AddReviewCall(r, v, g)
  \/ \E v \in VendorIds : AddTrustEventCall(v)
  \/ \E u \in Users, v \in RequestVendorIds, g \in RatingInputs :
       AddReviewRequest(u, v, g)
  \/ \E i \in DOMAIN collaborations : CollaborationCompleted(i)

SpecStore == InitStore /\ [][NextStore]_vars

(* ----------------------- content: the scheduler ------------------------ *)
MaxContent == 2       \* rows inserted into content_calendar
MaxDay == 1           \* the clock stops at the end of this day (days count from 0)

\* Time is the sequence of instants at which a scheduler thread wakes up and
\* something can be due; requests arrive between two wake-ups.  An instant
\* is day * Len(TimesOfDay) + position of its time of day.
TimesOfDay == <<"00:00", "09:00", "10:30", "12:00", "17:00", "20:00">>
SlotOf(time) == (CHOOSE i \in DOMAIN TimesOfDay : TimesOfDay[i] = time) - 1
Instant(date, time) == date * Len(TimesOfDay) + SlotOf(time)
DayOf(instant) == instant \div Len(TimesOfDay)

\* schedule.every().day.at(time): the first run is today when the time of
\* day is still ahead, else tomorrow
first_run(now, time) ==
  IF SlotOf(time) > now % Len(TimesOfDay) THEN Instant(DayOf(now), time)
  ELSE Instant(DayOf(now) + 1, time)

\* after a run the job is due again the next day at the same time
next_run_after(now, time) == Instant(DayOf(now) + 1, time)

\* add_to_scheduler: strftime('%H:%M') keeps the time of day of scheduled_time
add_to_scheduler(scheduled_jobs, now, content_id, scheduled_time) ==
  Append(scheduled_jobs,
         [do |-> "post_content", arg |-> content_id, at |-> scheduled_time.time,
          next_run |-> first_run(now, scheduled_time.time)])

\* start_content_scheduler: the four daily jobs of a vendor
AutomationTimes == <<"09:00", "12:00", "17:00", "20:00">>
start_content_scheduler(scheduled_jobs, now, vendor_id) ==
  scheduled_jobs \o
    [k \in DOMAIN AutomationTimes |->
       [do |-> "post_scheduled_content", arg |-> vendor_id,
        at |-> AutomationTimes[k],
        next_run |-> first_run(now, AutomationTimes[k])]]

\* schedule.run_pending: the due job that runs next, 0 if none is due
\* (sorted by next_run, jobs of equal next_run in the order they were added)
pending_job ==
  LET due == {j \in DOMAIN jobs : jobs[j].next_run <= clock}
  IN IF due = {} THEN 0
     ELSE CHOOSE j \in due :
            \A k \in due : \/ jobs[j].next_run < jobs[k].next_run
                           \/ (jobs[j].next_run = jobs[k].next_run /\ j <= k)

\* SELECT ... WHERE vendor_id = ? AND status = 'scheduled'
\* ORDER BY scheduled_time ASC LIMIT 1: the content_id, 0 if there is none
next_scheduled(vendor_id) ==
  LET rows == {i \in DOMAIN content_calendar :
                 /\ content_calendar[i].vendor_id = vendor_id
                 /\ content_calendar[i].status = "scheduled"}
      When(i) == Instant(content_calendar[i].scheduled_time.date,
                         content_calendar[i].scheduled_time.time)
  IN IF rows = {} THEN 0
     ELSE CHOOSE i \in rows :
            \A k \in rows : When(i) < When(k) \/ (When(i) = When(k) /\ i <= k)

NeverPosted == 0 - 1

InitContent ==
  /\ AuthIdle
  /\ ConcIdle
  /\ reviews = <<>>
  /\ collaborations = <<>>
  /\ ad_campaigns = <<>>
  /\ trust_scores = <<>>
  /\ trust_events = <<>>
  /\ last = NoCall
  /\ MatchIdle
  /\ ContentIdle
  /\ PitchIdle

contentRest == <<trustVars, last, concVars, matchVars, pitchVars, authVars>>

\* content_automation.schedule_content(vendor_id, content_data)
ScheduleContent(vendor_id, scheduled_time, platform) ==
  /\ Len(content_calendar) < MaxContent
  /\ content_calendar' = Append(content_calendar,
        [vendor_id |-> vendor_id, platform |-> platform,
         scheduled_time |-> scheduled_time, status |-> "scheduled",
         posted_at |-> NeverPosted])
  /\ jobs' = add_to_scheduler(jobs, clock, Len(content_calendar) + 1, scheduled_time)
  /\ UNCHANGED <<clock, running>>
  /\ UNCHANGED contentRest

\* automation_controller.setup_automation(vendor_id, 'content_scheduling')
SetupAutomation(vendor_id) ==
  /\ \A j \in DOMAIN jobs : jobs[j].do # "post_scheduled_content"
  /\ jobs' = start_content_scheduler(jobs, clock, vendor_id)
  /\ UNCHANGED <<content_calendar, clock, running>>
  /\ UNCHANGED contentRest

\* time.sleep(60) ends: the next wake-up, once run_pending has run every due job
Tick ==
  /\ running = 0
  /\ pending_job = 0
  /\ DayOf(clock + 1) <= MaxDay
  /\ clock' = clock + 1
  /\ UNCHANGED <<content_calendar, jobs, running>>
  /\ UNCHANGED contentRest

\* run_pending runs post_content: execute_content_post up to its first commit
ExecuteContentPost ==
  LET j == pending_job IN
  /\ running = 0
  /\ j # 0
  /\ jobs[j].do = "post_content"
  /\ content_calendar' = [content_calendar EXCEPT ![jobs[j].arg].status = "posting"]
  /\ running' = j
  /\ UNCHANGED <<jobs, clock>>
  /\ UNCHANGED contentRest

\* execute_content_post from the first commit to the second: the loop over
\* json.loads(platform) raises on a platform that is no list, and the job is
\* due again tomorrow
FinishContentPost ==
  LET content_id == jobs[running].arg IN
  /\ running # 0
  /\ content_calendar' =
       IF content_calendar[content_id].platform = "list"
         THEN [content_calendar EXCEPT ![content_id].status = "posted",
                                       ![content_id].posted_at = clock]
         ELSE [content_calendar EXCEPT ![content_id].status = "failed"]
  /\ jobs' = [jobs EXCEPT ![running].next_run = next_run_after(clock, jobs[running].at)]
  /\ running' = 0
  /\ UNCHANGED clock
  /\ UNCHANGED contentRest

\* run_pending runs automation_controller.post_scheduled_content(vendor_id)
PostScheduledContent ==
  LET j == pending_job
      content_id == next_scheduled(jobs[j].arg)
  IN
  /\ running = 0
  /\ j # 0
  /\ jobs[j].do = "post_scheduled_content"
  /\ content_calendar' =
       IF content_id = 0 THEN content_calendar
       ELSE [content_calendar EXCEPT ![content_id].status = "posted",
                                     ![content_id].posted_at = clock]
  /\ jobs' = [jobs EXCEPT ![j].next_run = next_run_after(clock, jobs[j].at)]
  /\ UNCHANGED <<clock, running>>
  /\ UNCHANGED contentRest

ContentVendors == {1}
AutomationVendors == {1, 2}
ScheduledTimeInputs ==
  { [date |-> 0, time |-> "10:30"], [date |-> 1, time |-> "09:00"],
    [date |-> 2, time |-> "10:30"] }
\* json.dumps(content_data['platform']): a list of names, or a value that
\* cannot be iterated over (a number, null)
PlatformInputs == {"list", "number"}

NextContent ==
  \/ \E v \in ContentVendors, t \in ScheduledTimeInputs, p \in PlatformInputs :
       ScheduleContent(v, t, p)
  \/ \E v \in AutomationVendors : SetupAutomation(v)
  \/ Tick
  \/ ExecuteContentPost
  \/ FinishContentPost
  \/ PostScheduledContent

SpecContent == InitContent /\ [][NextContent]_vars

(* ------------------ FundraisingManager: pitch score -------------------- *)
\* A text is the sequence of its characters.
\* str.lower()
lower(text) ==
  LET UpperCase ==
        <<"A", "B", "C", "D", "E", "F", "G", "H", "I", "J", "K", "L", "M", "N",
          "O", "P", "Q", "R", "S", "T", "U", "V", "W", "X", "Y", "Z">>
      LowerCase ==
        <<"a", "b", "c", "d", "e", "f", "g", "h", "i", "j", "k", "l", "m", "n",
          "o", "p", "q", "r", "s", "t", "u", "v", "w", "x", "y", "z">>
  IN [i \in DOMAIN text |->
        IF \E k \in DOMAIN UpperCase : UpperCase[k] = text[i]
          THEN LowerCase[CHOOSE k \in DOMAIN UpperCase : UpperCase[k] = text[i]]
          ELSE text[i]]

\* word in text
Contains(text, word) ==
  \E i \in 1 .. (Len(text) - Len(word) + 1) :
    SubSeq(text, i, i + Len(word) - 1) = word

Repeat(c, n) == [i \in 1 .. n |-> c]

\* Problem statement, the length bonus starting above 101 characters
problem_points_above_101(problem_statement) ==
  (IF Len(problem_statement) > 101 THEN 15 ELSE 0)
    + (IF Contains(lower(problem_statement), <<"p", "a", "i", "n">>) THEN 5 ELSE 0)

\* Problem statement (20 points)
problem_points(problem_statement) ==
  (IF Len(problem_statement) > 100 THEN 15 ELSE 0)
    + (IF Contains(lower(problem_statement), <<"p", "a", "i", "n">>) THEN 5 ELSE 0)

\* Solution clarity (20 points)
solution_points(solution) == IF Len(solution) > 50 THEN 20 ELSE 0

\* Market size (20 points), with a slip: the final else scores like 'million'
market_points_no_else(market_size) ==
  IF Contains(lower(market_size), <<"b", "i", "l", "l", "i", "o", "n">>) THEN 20
  ELSE 15

\* Market size (20 points)
market_points(market_size) ==
  IF Contains(lower(market_size), <<"b", "i", "l", "l", "i", "o", "n">>) THEN 20
  ELSE IF Contains(lower(market_size), <<"m", "i", "l", "l", "i", "o", "n">>) THEN 15
  ELSE 10

\* Traction (20 points); an empty text is skipped
traction_points(traction) ==
  IF traction = <<>> THEN 0
  ELSE (IF Contains(lower(traction), <<"r", "e", "v", "e", "n", "u", "e">>) THEN 15 ELSE 0)
         + (IF Contains(lower(traction), <<"u", "s", "e", "r", "s">>) THEN 5 ELSE 0)

\* Funding amount appropriateness (20 points); float() raises on a text that
\* is no number and the except branch scores 10
funding_points(funding_amount) ==
  IF ~funding_amount.number THEN 10
  ELSE IF 50000 <= funding_amount.value /\ funding_amount.value <= 500000 THEN 20
  ELSE IF 500000 < funding_amount.value /\ funding_amount.value <= 2000000 THEN 15
  ELSE 10

\* calculate_pitch_score(pitch_id) over the table
calculate_pitch_score(pitches, pitch_id) ==
  IF pitch_id \notin DOMAIN pitches THEN 0
  ELSE LET pitch_dict == pitches[pitch_id]
           score == problem_points(pitch_dict.problem_statement)
                      + solution_points(pitch_dict.solution)
                      + market_points(pitch_dict.market_size)
                      + traction_points(pitch_dict.traction)
                      + funding_points(pitch_dict.funding_amount)
       IN IF score <= 100 THEN score ELSE 100

\* create_pitch: INSERT, then investor_interest = calculate_pitch_score(pitch_id)
create_pitch(pitches, pitch_data) ==
  LET stored == Append(pitches, [pitch_data EXCEPT !.investor_interest = NotScored])
      pitch_id == Len(stored)
  IN [stored EXCEPT ![pitch_id].investor_interest =
        calculate_pitch_score(stored, pitch_id)]

(* --------------- FundraisingManager.find_investor_matches -------------- *)
\* part in text, both texts given as their comma-separated parts: the empty
\* text is in every text, another text where its parts stand in a row (the
\* locations and preferences used here share whole parts or nothing)
text_in(part, text) == part = <<"">> \/ Contains(text, part)

\* Industry match (40 points)
investor_industry_points(industry, investor_industries) ==
  IF industry \in SetOf(investor_industries) THEN 40 ELSE 0

\* Location match (30 points); a NULL or empty preference is skipped
investor_location_points(location, location_preference) ==
  IF location_truthy(location_preference) /\ text_in(location, location_preference)
    THEN 30 ELSE 0

\* Funding amount match with open bounds: min < needed < max
investor_funding_points_open(funding_amount, check_size_min, check_size_max) ==
  IF ~funding_amount.number \/ ~check_size_min.number \/ ~check_size_max.number
    THEN 10
  ELSE IF check_size_min.value < funding_amount.value
            /\ funding_amount.value < check_size_max.value THEN 30
  ELSE IF funding_amount.value < check_size_min.value THEN 15
  ELSE 10

\* Funding amount match (30 points); a float() that raises scores 10
investor_funding_points(funding_amount, check_size_min, check_size_max) ==
  IF ~funding_amount.number \/ ~check_size_min.number \/ ~check_size_max.number
    THEN 10
  ELSE IF check_size_min.value <= funding_amount.value
            /\ funding_amount.value <= check_size_max.value THEN 30
  ELSE IF funding_amount.value < check_size_min.value THEN 15
  ELSE 10

\* the score of one investor without the location match
investor_score_without_location(pitch_dict, investor_dict) ==
  LET investor_industries == json_loads(investor_dict.industries)
  IN [raised |-> investor_industries.raised,
      value |->
        investor_industry_points(pitch_dict.industry, investor_industries.value)
        + investor_funding_points(pitch_dict.funding_amount,
                                  investor_dict.check_size_min,
                                  investor_dict.check_size_max)]

\* the score one investor gets in the loop, or the exception it raises:
\* json.loads of a NULL industries column, None in a location preference
investor_score(pitch_dict, investor_dict) ==
  LET investor_industries == json_loads(investor_dict.industries)
  IN [raised |->
        \/ investor_industries.raised
        \/ (location_truthy(investor_dict.location_preference)
              /\ pitch_dict.location = NullLocation),
      value |->
        investor_industry_points(pitch_dict.industry, investor_industries.value)
        + investor_location_points(pitch_dict.location,
                                   investor_dict.location_preference)
        + investor_funding_points(pitch_dict.funding_amount,
                                  investor_dict.check_size_min,
                                  investor_dict.check_size_max)]

InvestorThreshold == 50              \* match_score >= 50
InvestorLimit == 10                  \* matches[:10]

RECURSIVE investor_matches_from(_, _, _)
investor_matches_from(pitch_dict, rows, i) ==
  IF i > Len(rows) THEN [raised |-> FALSE, value |-> <<>>]
  ELSE
    LET scored == investor_score(pitch_dict, rows[i])
        rest == investor_matches_from(pitch_dict, rows, i + 1)
    IN IF scored.raised \/ rest.raised THEN [raised |-> TRUE, value |-> <<>>]
       ELSE [raised |-> FALSE,
             value |-> IF scored.value >= InvestorThreshold
                         THEN <<[investor |-> rows[i].name,
                                 match_score |-> scored.value]>> \o rest.value
                         ELSE rest.value]

\* SELECT p.*, v.industry, v.location FROM fundraising_pitches p JOIN
\* vendor_profiles v ON p.vendor_id = v.vendor_id WHERE p.pitch_id = ?
pitch_with_vendor(pitches, profiles, pitch_id) ==
  IF pitch_id \in DOMAIN pitches /\ pitches[pitch_id].vendor_id \in DOMAIN profiles
    THEN <<[funding_amount |-> pitches[pitch_id].funding_amount,
            industry |-> profiles[pitches[pitch_id].vendor_id].industry,
            location |-> profiles[pitches[pitch_id].vendor_id].location]>>
    ELSE <<>>

find_investor_matches(pitches, profiles, rows, pitch_id) ==
  LET pitch == pitch_with_vendor(pitches, profiles, pitch_id)
  IN IF pitch = <<>> THEN [raised |-> FALSE, value |-> <<>>]
     ELSE
       LET found == investor_matches_from(pitch[1], rows, 1)
       IN IF found.raised THEN found
          ELSE [raised |-> FALSE,
                value |-> Truncate(SortDescending(found.value), InvestorLimit)]

MaxPitches == 2       \* rows inserted into fundraising_pitches

Number(value) == [number |-> TRUE, value |-> value]
NotANumber == [number |-> FALSE, value |-> 0]

\* "$10B total addressable market"
TenBMarket ==
  <<"$", "1", "0", "B", " ", "t", "o", "t", "a", "l", " ", "a", "d", "d",
     "r", "e", "s", "s", "a", "b", "l", "e", " ", "m", "a", "r", "k", "e",
     "t" >>
\* "100+ beta users, 95% satisfaction"
BetaUsersTraction ==
  <<"1", "0", "0", "+", " ", "b", "e", "t", "a", " ", "u", "s", "e", "r",
     "s", ",", " ", "9", "5", "%", " ", "s", "a", "t", "i", "s", "f", "a",
     "c", "t", "i", "o", "n" >>

\* the pitch of end-to-end scenario 2: a 150-character problem statement
\* containing "pain", a 60-character solution
ScenarioPitch ==
  [problem_statement |-> Repeat("x", 146) \o <<"p", "a", "i", "n">>,
   solution |-> Repeat("s", 60),
   market_size |-> TenBMarket,
   traction |-> BetaUsersTraction,
   funding_amount |-> Number(300000),
   investor_interest |-> NotScored]

\* the pitch_data of the requests made: the scenario's pitch and pitches that
\* differ from it in one field
PitchInputs ==
  {ScenarioPitch}
    \cup {[ScenarioPitch EXCEPT !.problem_statement = t] :
            t \in {Repeat("x", 100), <<"P", "a", "i", "n">> \o Repeat("x", 97),
                   Repeat("x", 99), Repeat("x", 101),
                   Repeat("x", 95) \o <<"p", "a", "i", "n">>}}
    \cup {[ScenarioPitch EXCEPT !.solution = Repeat("s", 50)]}
    \cup {[ScenarioPitch EXCEPT !.market_size = t] :
            t \in {<<"2", " ", "B", "i", "l", "l", "i", "o", "n">>,
                   <<"5", " ", "m", "i", "l", "l", "i", "o", "n">>}}
    \cup {[ScenarioPitch EXCEPT !.traction = t] :
            t \in {<<>>, <<"R", "e", "v", "e", "n", "u", "e", ",", " ",
                           "u", "s", "e", "r", "s">>}}
    \cup {[ScenarioPitch EXCEPT !.funding_amount = t] :
            t \in {Number(500001), Number(2000001), NotANumber}}

InitPitch ==
  /\ AuthIdle
  /\ ConcIdle
  /\ reviews = <<>>
  /\ collaborations = <<>>
  /\ ad_campaigns = <<>>
  /\ trust_scores = <<>>
  /\ trust_events = <<>>
  /\ last = NoCall
  /\ MatchIdle
  /\ ContentIdle
  /\ PitchIdle

pitchRest ==
  <<trustVars, last, concVars, matchVars, contentVars, investors, authVars>>

\* fundraising_manager.create_pitch(vendor_id, pitch_data)
CreatePitch(pitch_data) ==
  /\ Len(fundraising_pitches) < MaxPitches
  /\ fundraising_pitches' = create_pitch(fundraising_pitches, pitch_data)
  /\ pitch_score' = NoPitchScore
  /\ UNCHANGED pitchRest

\* fundraising_manager.calculate_pitch_score(pitch_id)
CalculatePitchScoreCall(pitch_id) ==
  /\ pitch_score' = [pitch_id |-> pitch_id,
                     score |-> calculate_pitch_score(fundraising_pitches, pitch_id)]
  /\ UNCHANGED fundraising_pitches
  /\ UNCHANGED pitchRest

NextPitch ==
  \/ \E d \in PitchInputs : CreatePitch(d)
  \/ \E i \in 1 .. (Len(fundraising_pitches) + 1) : CalculatePitchScoreCall(i)

SpecPitch == InitPitch /\ [][NextPitch]_vars

(* ------------------- investors: tables and the call -------------------- *)
\* the vendor whose pitch is matched: a technology vendor of San Francisco, a
\* retail vendor of Austin, a technology vendor with an empty location, and a
\* vendor registered without a profile
PitchVendors ==
  { profile_row([business_name |-> "T", industry |-> "technology",
                 location |-> SanFrancisco]),
    profile_row([business_name |-> "R", industry |-> "retail",
                 location |-> <<"Austin", " TX">>]),
    profile_row([business_name |-> "N", industry |-> "technology",
                 location |-> <<"">>]),
    registration_row("u") }

\* the funding_amount of the pitch
FundingInputs ==
  { Number(50000), Number(100000), Number(300000), Number(400000),
    Number(500000), Number(2000000), NotANumber }

\* pitch_data of create_pitch(vendor_id, pitch_data)
PitchOf(vendor_id, funding_amount) ==
  [vendor_id |-> vendor_id,
   problem_statement |-> ScenarioPitch.problem_statement,
   solution |-> ScenarioPitch.solution,
   market_size |-> ScenarioPitch.market_size,
   traction |-> ScenarioPitch.traction,
   funding_amount |-> funding_amount,
   investor_interest |-> NotScored]

\* rows the investors table may hold
InvestorRows ==
  { [name |-> "I1", industries |-> json_dumps(<<"technology", "fintech">>),
     location_preference |-> SanFrancisco,
     check_size_min |-> Number(100000), check_size_max |-> Number(500000)],
    [name |-> "I2", industries |-> json_dumps(<<"retail">>),
     location_preference |-> NullLocation,
     check_size_min |-> Number(100000), check_size_max |-> Number(500000)],
    [name |-> "I3", industries |-> json_dumps(<<"technology">>),
     location_preference |-> <<"">>,
     check_size_min |-> Number(400000), check_size_max |-> Number(1000000)],
    [name |-> "I4", industries |-> json_dumps(<<>>),
     location_preference |-> SanFrancisco \o <<" Austin", " TX">>,
     check_size_min |-> NotANumber, check_size_max |-> Number(500000)],
    [name |-> "I5", industries |-> NullJson,
     location_preference |-> NullLocation,
     check_size_min |-> Number(100000), check_size_max |-> Number(500000)] }

InitInvest ==
  /\ AuthIdle
  /\ ConcIdle
  /\ reviews = <<>>
  /\ collaborations = <<>>
  /\ ad_campaigns = <<>>
  /\ trust_scores = <<>>
  /\ trust_events = <<>>
  /\ last = NoCall
  /\ vendor_profiles \in {<<row>> : row \in PitchVendors}
  /\ answer = NoAnswer
  /\ ContentIdle
  /\ fundraising_pitches \in
       {create_pitch(<<>>, PitchOf(v, f)) : v \in {1, 2}, f \in FundingInputs}
  /\ pitch_score = NoPitchScore
  /\ investors \in
       {<<row>> : row \in InvestorRows}
         \cup {<<r1, r2>> : r1 \in InvestorRows, r2 \in InvestorRows}

\* fundraising_manager.find_investor_matches(pitch_id)
FindInvestorMatchesCall(pitch_id) ==
  LET r == find_investor_matches(fundraising_pitches, vendor_profiles, investors,
                                 pitch_id)
  IN /\ answer' = [NoAnswer EXCEPT !.op = "find_investor_matches", !.v = pitch_id,
                                   !.raised = r.raised, !.entries = r.value]
     /\ UNCHANGED <<vendor_profiles, pitchVars>>
     /\ UNCHANGED <<trustVars, last, concVars, contentVars, authVars>>

NextInvest ==
  \E pitch_id \in 1 .. (Len(fundraising_pitches) + 1) :
    FindInvestorMatchesCall(pitch_id)

SpecInvest == InitInvest /\ [][NextInvest]_vars

(* ---------------- app: GET /api/init and its sample rows ---------------- *)
\* "Small businesses struggle with marketing and fundraising"
SampleProblem ==
    << "S", "m", "a", "l", "l", " ", "b", "u", "s", "i", "n", "e", "s",
       "s", "e", "s", " ", "s", "t", "r", "u", "g", "g", "l", "e", " ",
       "w", "i", "t", "h", " ", "m", "a", "r", "k", "e", "t", "i", "n",
       "g", " ", "a", "n", "d", " ", "f", "u", "n", "d", "r", "a", "i",
       "s", "i", "n", "g" >>
\* "All-in-one platform with AI assistance"
SampleSolution ==
    << "A", "l", "l", "-", "i", "n", "-", "o", "n", "e", " ", "p", "l",
       "a", "t", "f", "o", "r", "m", " ", "w", "i", "t", "h", " ", "A",
       "I", " ", "a", "s", "s", "i", "s", "t", "a", "n", "c", "e" >>

\* the sample pitch: INSERT ... status 'active', investor_interest 3
SamplePitch(vendor_id) ==
  [vendor_id |-> vendor_id,
   problem_statement |-> SampleProblem,
   solution |-> SampleSolution,
   market_size |-> TenBMarket,
   traction |-> BetaUsersTraction,
   funding_amount |-> Number(500000),
   investor_interest |-> 3]

SampleVendor ==
  profile_row([business_name |-> "Sample Business", business_type |-> "LLC",
               industry |-> "technology", location |-> SanFrancisco,
               target_audience |-> <<"small_businesses", "entrepreneurs", "startups">>,
               budget |-> 10000,
               goals |-> <<"increase_sales", "brand_awareness", "get_funding">>])

\* GET /api/init: with no vendor stored it inserts a sample vendor, campaign,
\* content item (not handed to the scheduler) and pitch; else it stores nothing
InitializeSystem ==
  IF vendor_profiles = <<>>
    THEN LET vendor_id == Len(vendor_profiles) + 1
         IN /\ vendor_profiles' = Append(vendor_profiles, SampleVendor)
            /\ ad_campaigns' = Append(ad_campaigns, Campaign(vendor_id, "active"))
            /\ content_calendar' = Append(content_calendar,
                  [vendor_id |-> vendor_id, platform |-> "list",
                   scheduled_time |-> [date |-> 0, time |-> "09:00"],
                   status |-> "scheduled", posted_at |-> NeverPosted])
            /\ fundraising_pitches' = Append(fundraising_pitches,
                                             SamplePitch(vendor_id))
            /\ last' = [op |-> "initialize_system", v |-> vendor_id,
                        error |-> "none"]
            /\ UNCHANGED <<reviews, collaborations, trust_scores, trust_events>>
            /\ UNCHANGED <<concVars, answer, jobs, clock, running, pitch_score,
                           investors, authVars>>
    ELSE /\ last' = [op |-> "initialize_system", v |-> 0, error |-> "none"]
         /\ UNCHANGED trustVars /\ UNCHANGED nonTrustVars

NextSeed ==
  \/ InitializeSystem
  \/ \E d \in PitchInputs : CreatePitch(d)
  \/ \E i \in 1 .. (Len(fundraising_pitches) + 1) : CalculatePitchScoreCall(i)

SpecSeed == InitPitch /\ [][NextSeed]_vars

(* ------------------ sessions: UIDManager and the app ------------------- *)
\* users rows the database holds: one registered user, id 1
RegisteredUsers == {1}

NoHeader == 0         \* request.headers.get('Authorization') is None

\* datetime('now', '+7 days')
SevenDays == 7 * Len(TimesOfDay)

\* the same query with s.expires_at >= CURRENT_TIMESTAMP
validate_session_at_expiry(sess, now, session_id) ==
  LET found == {i \in DOMAIN sess :
                  /\ sess[i].session_id = session_id
                  /\ sess[i].user_id \in RegisteredUsers
                  /\ sess[i].expires_at >= now}
  IN IF found = {} THEN None ELSE sess[CHOOSE i \in found : TRUE].user_id

\* the same query without the expires_at condition
validate_session_unexpiring(sess, now, session_id) ==
  LET found == {i \in DOMAIN sess :
                  /\ sess[i].session_id = session_id
                  /\ sess[i].user_id \in RegisteredUsers}
  IN IF found = {} THEN None ELSE sess[CHOOSE i \in found : TRUE].user_id

\* UIDManager.validate_session: SELECT ... FROM sessions s JOIN users u ON
\* s.user_id = u.id WHERE s.session_id = ? AND s.expires_at > CURRENT_TIMESTAMP;
\* the user's id, or None when no row is found
validate_session(sess, now, session_id) ==
  LET found == {i \in DOMAIN sess :
                  /\ sess[i].session_id = session_id
                  /\ sess[i].user_id \in RegisteredUsers
                  /\ sess[i].expires_at > now}
  IN IF found = {} THEN None ELSE sess[CHOOSE i \in found : TRUE].user_id

\* app.validate_session: no header, no user
request_user(sess, now, authorization) ==
  IF authorization = NoHeader THEN None
  ELSE validate_session(sess, now, authorization)

\* UIDManager.authenticate_user for a user found by email and password: the
\* session row it inserts; uuid4 gives an id no stored session has
authenticate_user(sess, now, user_id) ==
  Append(sess, [session_id |-> Len(sess) + 1, user_id |-> user_id,
                created_at |-> now, expires_at |-> now + SevenDays])

\* logout deleting the session row
logout_deleting(sess, session_id) ==
  SelectSeq(sess, LAMBDA s : s.session_id # session_id)

\* app.logout: reads the header and does nothing with it
logout(sess, session_id) == sess

(* ---------------- sessions: login, logout and the clock ----------------- *)
MaxSessions == 2      \* rows inserted into sessions
MaxAuthDays == 8      \* days the clock runs

Headers == {NoHeader, 1, 2, 3}

InitSession ==
  /\ ConcIdle
  /\ MatchIdle
  /\ ContentIdle
  /\ PitchIdle
  /\ AuthIdle
  /\ reviews = <<>>
  /\ collaborations = <<>>
  /\ ad_campaigns = <<>>
  /\ trust_scores = <<>>
  /\ trust_events = <<>>
  /\ last = NoCall

sessionRest ==
  <<trustVars, concVars, matchVars, content_calendar, jobs, running, pitchVars>>

\* POST /api/auth/login; found: the email and password match a users row
Login(user_id, found) ==
  /\ Len(sessions) < MaxSessions
  /\ sessions' = IF found THEN authenticate_user(sessions, clock, user_id)
                 ELSE sessions
  /\ last' = [op |-> "login", v |-> IF found THEN Len(sessions) + 1 ELSE 0,
              error |-> IF found THEN "none" ELSE "401"]
  /\ UNCHANGED clock
  /\ UNCHANGED sessionRest

\* POST /api/auth/logout
Logout(authorization) ==
  /\ sessions' = logout(sessions, authorization)
  /\ last' = [op |-> "logout", v |-> authorization, error |-> "none"]
  /\ UNCHANGED clock
  /\ UNCHANGED sessionRest

\* GET /api/auth/validate; last keeps whether the request before it was a
\* logout with the same header
Validate(authorization) ==
  /\ last' = [op |-> "validate", v |-> authorization,
              error |-> IF request_user(sessions, clock, authorization) = None
                          THEN "401" ELSE "none",
              after_logout |-> last.op = "logout" /\ last.v = authorization]
  /\ UNCHANGED <<sessions, clock>>
  /\ UNCHANGED sessionRest

\* a day passes
DayPasses ==
  /\ DayOf(clock) < MaxAuthDays
  /\ clock' = clock + Len(TimesOfDay)
  /\ last' = [op |-> "external", v |-> 0, error |-> "none"]
  /\ UNCHANGED sessions
  /\ UNCHANGED sessionRest

NextSession ==
  \/ \E found \in BOOLEAN : Login(1, found)
  \/ \E h \in Headers : Logout(h)
  \/ \E h \in Headers : Validate(h)
  \/ DayPasses

SpecSession == InitSession /\ [][NextSession]_vars

(* ------------- sessions: the endpoints that require a session ----------- *)
MaxAuthRows == 2      \* rows the tables hold before a request is refused room

\* the instant of the requests: day 8
AuthNow == Instant(8, "00:00")

Session(session_id, user_id, created_at) ==
  [session_id |-> session_id, user_id |-> user_id, created_at |-> created_at,
   expires_at |-> created_at + SevenDays]

\* sessions tables at the instant of the requests: none; session 1 live;
\* session 1 expired; session 1 expired this instant and session 2 live;
\* session 1 of a user whose users row is gone
AuthSessions ==
  { <<>>,
    <<Session(1, 1, Instant(5, "09:00"))>>,
    <<Session(1, 1, Instant(0, "09:00"))>>,
    <<Session(1, 1, Instant(1, "00:00")), Session(2, 1, Instant(7, "12:00"))>>,
    <<Session(1, 2, Instant(5, "09:00"))>> }

InitAuth ==
  /\ ConcIdle
  /\ PitchIdle
  /\ reviews = <<>>
  /\ collaborations = <<>>
  /\ ad_campaigns = <<>>
  /\ trust_scores = <<>>
  /\ trust_events = <<>>
  /\ last = NoCall
  /\ vendor_profiles \in StoreVendors
  /\ answer = NoAnswer
  /\ content_calendar = <<>>
  /\ jobs = <<>>
  /\ clock = AuthNow
  /\ running = 0
  /\ sessions \in AuthSessions

TotalRows ==
  Len(vendor_profiles) + Len(collaborations) + Len(ad_campaigns)
    + Len(content_calendar) + Len(fundraising_pitches) + Len(jobs)

AuthRoom == TotalRows < MaxAuthRows

\* return error_response('Authentication required', 401)
AuthenticationRequired(op) ==
  /\ last' = [op |-> op, v |-> 0, error |-> "401"]
  /\ UNCHANGED trustVars /\ UNCHANGED nonTrustVars

\* a 400 answer before anything is stored
BadRequest(op) ==
  /\ last' = [op |-> op, v |-> 0, error |-> "400"]
  /\ UNCHANGED trustVars /\ UNCHANGED nonTrustVars

\* POST /api/vendor/profile/create
CreateVendorProfileEndpoint(authorization, profile_data) ==
  LET user == request_user(sessions, clock, authorization)
      vendor_id == Len(vendor_profiles) + 1
      calc == calculate_trust_score(trust_scores, reviews, collaborations,
                                    ad_campaigns, vendor_id, FALSE)
  IN IF user = None THEN AuthenticationRequired("create_vendor_profile")
     ELSE IF Get(profile_data, "business_name", NullText) \in {NullText, ""}
       THEN BadRequest("create_vendor_profile")
     ELSE /\ vendor_profiles' = Append(vendor_profiles, profile_row(profile_data))
          /\ trust_scores' = calc.scores
          /\ last' = [op |-> "create_vendor_profile", v |-> vendor_id,
                      error |-> "none"]
          /\ UNCHANGED <<reviews, collaborations, ad_campaigns, trust_events>>
          /\ UNCHANGED <<concVars, answer, contentVars, pitchVars, authVars>>

\* VendorProfileManager.update_vendor_profile: UPDATE ... SET the fields named
\* in updates WHERE vendor_id = ?; no row, no change
update_vendor_profile(profiles, vendor_id, updates) ==
  IF vendor_id \notin DOMAIN profiles THEN profiles
  ELSE [profiles EXCEPT ![vendor_id] =
         [@ EXCEPT
            !.business_name = Get(updates, "business_name", @),
            !.target_audience =
               IF "target_audience" \in DOMAIN updates
                 THEN json_dumps(updates.target_audience) ELSE @,
            !.goals = IF "goals" \in DOMAIN updates
                        THEN json_dumps(updates.goals) ELSE @,
            !.budget = Get(updates, "budget", @)]]

\* PUT /api/vendor/profile/<vendor_id>
UpdateVendorProfileEndpoint(authorization, vendor_id, updates) ==
  LET user == request_user(sessions, clock, authorization)
  IN IF user = None THEN AuthenticationRequired("update_vendor_profile")
     ELSE /\ vendor_profiles' = update_vendor_profile(vendor_profiles, vendor_id,
                                                       updates)
          /\ last' = [op |-> "update_vendor_profile", v |-> vendor_id,
                      error |-> "none"]
          /\ UNCHANGED trustVars
          /\ UNCHANGED <<concVars, answer, contentVars, pitchVars, authVars>>

\* POST /api/content/schedule
ScheduleContentEndpoint(authorization, vendor_id, scheduled_time, platform) ==
  LET user == request_user(sessions, clock, authorization)
  IN IF user = None THEN AuthenticationRequired("schedule_content")
     ELSE IF vendor_id = 0 THEN BadRequest("schedule_content")
     ELSE /\ content_calendar' = Append(content_calendar,
                [vendor_id |-> vendor_id, platform |-> platform,
                 scheduled_time |-> scheduled_time, status |-> "scheduled",
                 posted_at |-> NeverPosted])
          /\ jobs' = add_to_scheduler(jobs, clock, Len(content_calendar) + 1,
                                      scheduled_time)
          /\ last' = [op |-> "schedule_content", v |-> vendor_id, error |-> "none"]
          /\ UNCHANGED trustVars
          /\ UNCHANGED <<concVars, matchVars, clock, running, pitchVars, authVars>>

\* POST /api/fundraising/pitch/create: the pitch is stored before
\* add_trust_event raises, and the handler answers 400 for the exception
CreatePitchEndpoint(authorization, vendor_id, pitch_data) ==
  LET user == request_user(sessions, clock, authorization)
      e == add_trust_event(trust_scores, trust_events, reviews, collaborations,
                           ad_campaigns, vendor_id, "pitch_created")
  IN IF user = None THEN AuthenticationRequired("create_pitch")
     ELSE IF vendor_id = 0 THEN BadRequest("create_pitch")
     ELSE /\ fundraising_pitches' = create_pitch(fundraising_pitches, pitch_data)
          /\ pitch_score' = NoPitchScore
          /\ trust_scores' = e.scores
          /\ trust_events' = e.events
          /\ last' = [op |-> "create_pitch", v |-> vendor_id,
                      error |-> IF e.raised THEN "400" ELSE "none"]
          /\ UNCHANGED <<reviews, collaborations, ad_campaigns, investors>>
          /\ UNCHANGED <<concVars, matchVars, contentVars, authVars>>

\* POST /api/automation/setup; an automation type setup_automation does not
\* know is answered 'Setup failed'
SetupAutomationEndpoint(authorization, vendor_id, automation_type) ==
  LET user == request_user(sessions, clock, authorization)
  IN IF user = None THEN AuthenticationRequired("setup_automation")
     ELSE IF vendor_id = 0 \/ automation_type # "content_scheduling"
       THEN BadRequest("setup_automation")
     ELSE /\ jobs' = start_content_scheduler(jobs, clock, vendor_id)
          /\ last' = [op |-> "setup_automation", v |-> vendor_id, error |-> "none"]
          /\ UNCHANGED trustVars
          /\ UNCHANGED <<concVars, matchVars, content_calendar, clock, running,
                         pitchVars, authVars>>

AuthProfiles ==
  { [business_name |-> "A", industry |-> "technology"], [industry |-> "retail"] }
AuthUpdates == { [budget |-> 500, goals |-> <<"g1">>] }
AutomationTypes == {"content_scheduling", "newsletter"}

\* the requests made with one Authorization header
RequestWith(h) ==
  \/ \E d \in AuthProfiles : CreateVendorProfileEndpoint(h, d)
  \/ \E v \in VendorIds, d \in AuthUpdates : UpdateVendorProfileEndpoint(h, v, d)
  \/ \E v \in {0, 1} : CreateAdCampaignRequest(request_user(sessions, clock, h), v)
  \/ \E v \in {0, 1} :
       ScheduleContentEndpoint(h, v, [date |-> 9, time |-> "10:30"], "list")
  \/ \E v \in {0, 1} : CreatePitchEndpoint(h, v, PitchOf(v, Number(500000)))
  \/ \E v \in {0, 1} :
       InitiateCollaborationRequest(request_user(sessions, clock, h), v, 2)
  \/ \E v \in {0, 1}, t \in AutomationTypes : SetupAutomationEndpoint(h, v, t)
  \/ \E v \in {0, 1}, g \in {0, 4, 6} :
       AddReviewRequest(request_user(sessions, clock, h), v, g)

NextAuth ==
  \/ \E h \in Headers, d \in AuthProfiles :
       AuthRoom /\ CreateVendorProfileEndpoint(h, d)
  \/ \E h \in Headers, v \in VendorIds, d \in AuthUpdates :
       AuthRoom /\ UpdateVendorProfileEndpoint(h, v, d)
  \/ \E h \in Headers, v \in {0, 1} :
       AuthRoom /\ CreateAdCampaignRequest(request_user(sessions, clock, h), v)
  \/ \E h \in Headers, v \in {0, 1} :
       AuthRoom /\ ScheduleContentEndpoint(h, v, [date |-> 9, time |-> "10:30"],
                                           "list")
  \/ \E h \in Headers, v \in {0, 1} :
       AuthRoom /\ CreatePitchEndpoint(h, v, PitchOf(v, Number(500000)))
  \/ \E h \in Headers, v \in {0, 1} :
       AuthRoom
         /\ InitiateCollaborationRequest(request_user(sessions, clock, h), v, 2)
  \/ \E h \in Headers, v \in {0, 1}, t \in AutomationTypes :
       AuthRoom /\ SetupAutomationEndpoint(h, v, t)
  \/ \E h \in Headers, v \in {0, 1}, g \in {0, 4, 6} :
       AuthRoom /\ AddReviewRequest(request_user(sessions, clock, h), v, g)

SpecAuth == InitAuth /\ [][NextAuth]_vars

(* ----------- matching: tables of more candidates than the limit --------- *)
OrderVendor(name, industry, goals, budget) ==
  profile_row([business_name |-> name, business_type |-> "LLC",
               industry |-> industry, location |-> SanFrancisco,
               target_audience |-> <<"x">>, budget |-> budget, goals |-> goals])

\* thirteen vendors of San Francisco; for the restaurant O1 every other one but
\* O4 reaches the collaboration threshold and all twelve the similarity one
OrderVendors ==
  << OrderVendor("O1", "restaurant", <<"g1", "g2">>, 8000),
     OrderVendor("O2", "food_delivery", <<"g1">>, 8000),
     OrderVendor("O3", "retail", <<>>, 4000),
     OrderVendor("O4", "restaurant", <<"g1", "g2">>, 8000),
     OrderVendor("O5", "food_delivery", <<"g1">>, 8000),
     OrderVendor("O6", "technology", <<"g1", "g2">>, 2000),
     OrderVendor("O7", "logistics", <<>>, 4000),
     OrderVendor("O8", "consulting", <<"g2">>, 8000),
     OrderVendor("O9", "catering", <<"g1", "g2">>, 2000),
     OrderVendor("O10", "food_delivery", <<>>, 8000),
     OrderVendor("O11", "retail", <<"g1">>, 4000),
     OrderVendor("O12", "creative", <<>>, 8000),
     OrderVendor("O13", "technology", <<"g1">>, 8000) >>

Reversed(rows) == [i \in DOMAIN rows |-> rows[Len(rows) + 1 - i]]

OrderInvestor(name, industries, location_preference, check_size_min, check_size_max) ==
  [name |-> name, industries |-> json_dumps(industries),
   location_preference |-> location_preference,
   check_size_min |-> Number(check_size_min),
   check_size_max |-> Number(check_size_max)]

\* thirteen investors; for a restaurant pitch of San Francisco asking 300000
\* all but J8 and J10 reach the threshold
OrderInvestors ==
  << OrderInvestor("J1", <<"restaurant">>, SanFrancisco, 100000, 500000),
     OrderInvestor("J2", <<"restaurant">>, NullLocation, 100000, 500000),
     OrderInvestor("J3", <<>>, SanFrancisco, 100000, 500000),
     OrderInvestor("J4", <<"restaurant">>, NullLocation, 400000, 1000000),
     OrderInvestor("J5", <<"restaurant">>, NullLocation, 100000, 200000),
     OrderInvestor("J6", <<"restaurant">>, SanFrancisco, 100000, 500000),
     OrderInvestor("J7", <<>>, SanFrancisco, 100000, 500000),
     OrderInvestor("J8", <<"retail">>, NullLocation, 100000, 500000),
     OrderInvestor("J9", <<"restaurant">>, NullLocation, 100000, 500000),
     OrderInvestor("J10", <<>>, SanFrancisco, 400000, 1000000),
     OrderInvestor("J11", <<"restaurant">>, NullLocation, 100000, 200000),
     OrderInvestor("J12", <<"restaurant">>, NullLocation, 400000, 1000000),
     OrderInvestor("J13", <<"restaurant">>, NullLocation, 100000, 200000) >>

InitOrder ==
  /\ AuthIdle
  /\ ConcIdle
  /\ ContentIdle
  /\ reviews = <<>>
  /\ collaborations = <<>>
  /\ ad_campaigns = <<>>
  /\ trust_scores = <<>>
  /\ trust_events = <<>>
  /\ last = NoCall
  /\ vendor_profiles \in
       {OrderVendors, Reversed(OrderVendors), SubSeq(OrderVendors, 1, 5)}
  /\ answer = NoAnswer
  /\ fundraising_pitches \in
       {create_pitch(<<>>, PitchOf(v, Number(300000))) : v \in {1, 5}}
  /\ pitch_score = NoPitchScore
  /\ investors \in {OrderInvestors, Reversed(OrderInvestors)}

LimitInputs == {1, 3, DefaultLimit}

\* community_matching.find_similar_vendors(vendor_id, limit)
FindSimilarVendorsLimitCall(v, limit) ==
  LET r == find_similar_vendors(vendor_profiles, v, limit)
  IN /\ answer' = [op |-> "find_similar_vendors", v |-> v, w |-> 0,
                   raised |-> r.raised, score |-> <<0, 1>>,
                   entries |-> r.value, groups |-> <<>>, limit |-> limit]
     /\ UNCHANGED vendor_profiles
     /\ UNCHANGED matchRest

NextOrder ==
  \/ \E v \in AskedVendorIds, limit \in LimitInputs :
       FindSimilarVendorsLimitCall(v, limit)
  \/ \E v \in AskedVendorIds : FindCollaborationMatchesCall(v)
  \/ \E pitch_id \in 1 .. (Len(fundraising_pitches) + 1) :
       FindInvestorMatchesCall(pitch_id)

SpecOrder == InitOrder /\ [][NextOrder]_vars

(* ------------- matching: every pair of industries, two vendors ---------- *)
\* the industries of complementary_pairs and of skill_map
Industries ==
  {"restaurant", "food_delivery", "retail", "logistics", "software",
   "consulting", "photography", "real_estate", "event_planning", "catering",
   "technology", "creative"}

IndustryVendor(name, industry, location, goals) ==
  profile_row([business_name |-> name, business_type |-> "LLC",
               industry |-> industry, location |-> location,
               target_audience |-> <<"x">>, budget |-> 8000, goals |-> goals])

InitComplement ==
  /\ ConcIdle
  /\ ContentIdle
  /\ PitchIdle
  /\ AuthIdle
  /\ reviews = <<>>
  /\ collaborations = <<>>
  /\ ad_campaigns = <<>>
  /\ trust_scores = <<>>
  /\ trust_events = <<>>
  /\ last = NoCall
  /\ vendor_profiles \in
       { << IndustryVendor("P", i1, SanFrancisco, <<"g1", "g2">>),
            IndustryVendor("Q", i2, location, goals) >> :
           i1 \in Industries, i2 \in Industries,
           location \in {SanFrancisco, <<"Austin", " TX">>},
           goals \in {<<>>, <<"g1">>} }
  /\ answer = NoAnswer

NextComplement ==
  \E v \in AskedVendorIds : FindCollaborationMatchesCall(v)

SpecComplement == InitComplement /\ [][NextComplement]_vars

(* -------------------------- pitch: properties -------------------------- *)
\* row i of fundraising_pitches holds the pitch of end-to-end scenario 2
IsScenarioPitch(i) ==
  [fundraising_pitches[i] EXCEPT !.investor_interest = NotScored] = ScenarioPitch

Differ99And101(i, j) ==
  /\ [fundraising_pitches[i] EXCEPT !.problem_statement = <<>>,
                                     !.investor_interest = NotScored]
       = [fundraising_pitches[j] EXCEPT !.problem_statement = <<>>,
                                        !.investor_interest = NotScored]
  /\ Len(fundraising_pitches[i].problem_statement) = 99
  /\ Len(fundraising_pitches[j].problem_statement) = 101

MentionsPain(i) ==
  Contains(lower(fundraising_pitches[i].problem_statement), <<"p", "a", "i", "n">>)

C26_InterestIsPitchScore ==
  \A i \in DOMAIN fundraising_pitches :
    fundraising_pitches[i].investor_interest
      = calculate_pitch_score(fundraising_pitches, i)

(* ------------------------ investors: properties ----------------------- *)
\* the pitch a find_investor_matches call was made for, joined to its vendor
AskedPitch == pitch_with_vendor(fundraising_pitches, vendor_profiles, answer.v)[1]

MatchesReturned ==
  /\ answer.op = "find_investor_matches"
  /\ ~answer.raised
  /\ pitch_with_vendor(fundraising_pitches, vendor_profiles, answer.v) # <<>>

\* the entry reported for an investor name with a score
Reported(name, score) ==
  \E k \in DOMAIN answer.entries :
    answer.entries[k].investor = name /\ answer.entries[k].match_score = score

\* the points the claims give for industry and for location; an investor
\* whose location_preference is NULL or empty has no preference
ClaimedIndustryPoints(investor) ==
  IF AskedPitch.industry \in SetOf(investor.industries.items) THEN 40 ELSE 0
ClaimedLocationPoints(investor) ==
  IF investor.location_preference \notin {NullLocation, <<"">>}
       /\ text_in(AskedPitch.location, investor.location_preference)
    THEN 30 ELSE 0

\* the funding bucket the claims give: 30 within range, 15 below the minimum,
\* 10 above the maximum, 10 when an amount cannot be parsed
ClaimedFundingBucket(investor) ==
  LET needed == AskedPitch.funding_amount
      check_min == investor.check_size_min
      check_max == investor.check_size_max
  IN IF ~needed.number \/ ~check_min.number \/ ~check_max.number THEN 10
     ELSE IF needed.value < check_min.value THEN 15
     ELSE IF needed.value > check_max.value THEN 10
     ELSE 30

ClaimedScore(investor) ==
  ClaimedIndustryPoints(investor) + ClaimedLocationPoints(investor)
    + ClaimedFundingBucket(investor)

C3_StatusLifecycle ==
  [][\A i \in DOMAIN content_calendar :
       content_calendar'[i].status # content_calendar[i].status
         => <<content_calendar[i].status, content_calendar'[i].status>> \in
              { <<"scheduled", "posting">>, <<"posting", "posted">>,
                <<"posting", "failed">> }]_vars

\* C10: an item is posting only once the clock has reached its scheduled_time
\* (date and time), and an item that is posted was posted at or after it.
C10_OnlyDueContentPosted ==
  \A i \in DOMAIN content_calendar :
    LET row == content_calendar[i]
        due == Instant(row.scheduled_time.date, row.scheduled_time.time)
    IN /\ row.status = "posting" => clock >= due
       /\ row.status = "posted" => row.posted_at >= due

WeightsCounted(vendor1, vendor2) ==
  40 + 20 + 15
    + (IF /\ json_loads(vendor1.target_audience).value # <<>>
          /\ json_loads(vendor2.target_audience).value # <<>> THEN 15 ELSE 0)
    + (IF /\ budget_or_zero(vendor1.budget) > 0
          /\ budget_or_zero(vendor2.budget) > 0 THEN 10 ELSE 0)

\* the sum of the five contributions, in hundredths
Contributions(vendor1, vendor2) ==
  RatAdd(RatAdd(<<industry_part(vendor1, vendor2) + location_part(vendor1, vendor2)
                    + business_type_part(vendor1, vendor2), 1>>,
                audience_part(SetOf(json_loads(vendor1.target_audience).value),
                              SetOf(json_loads(vendor2.target_audience).value))),
         budget_part(budget_or_zero(vendor1.budget), budget_or_zero(vendor2.budget)))

\* C4: the score calculate_similarity returns is the sum of the contributions
\* divided by the sum of the weights counted, where the audience weight is
\* counted only when both audiences are non-empty and the budget weight only
\* when both budgets are positive.
C4_DenominatorIsWeightsCounted ==
  (answer.op = "calculate_similarity" /\ ~answer.raised)
    => LET vendor1 == vendor_profiles[answer.v]
           vendor2 == vendor_profiles[answer.w]
           sum == Contributions(vendor1, vendor2)
       IN answer.score = Rat(sum[1], sum[2] * WeightsCounted(vendor1, vendor2))

C8_AbsentFieldsNeverFail ==
  answer.op \in {"find_similar_vendors", "find_collaboration_matches"}
    => ~answer.raised

\* C11: whatever the table holds, neither find_similar_vendors(v) nor
\* find_collaboration_matches(v) returns an entry whose vendor_id is v.
C11_NeverMatchesItself ==
  answer.op \in {"find_similar_vendors", "find_collaboration_matches"}
    => \A k \in DOMAIN answer.entries : answer.entries[k].vendor_id # answer.v

\* C11 witness: the vendor stored between two others asked for its similar
\* vendors and got both of them back.
C11_BothNeighboursReturned ==
  /\ answer.op = "find_similar_vendors"
  /\ answer.v = 2
  /\ {answer.entries[k].vendor_id : k \in DOMAIN answer.entries} = {1, 3}

\* C12: calculate_similarity(A, B) equals calculate_similarity(B, A) for every
\* two stored vendor records: the value a call returned (or the exception it
\* raised) is what the call with the two records swapped gives.
C12_SimilaritySymmetric ==
  answer.op = "calculate_similarity"
    => LET swapped == calculate_similarity(vendor_profiles[answer.w],
                                           vendor_profiles[answer.v])
       IN /\ swapped.raised = answer.raised
          /\ swapped.value = answer.score

\* C12 witness: the similarity of a vendor with no audience and a zero budget
\* to a vendor with an empty location was calculated.
C12_SparseRecordsCompared ==
  /\ answer.op = "calculate_similarity"
  /\ answer.v # answer.w
  /\ ~answer.raised
  /\ json_loads(vendor_profiles[answer.v].target_audience).value = <<>>
  /\ vendor_profiles[answer.v].budget = 0
  /\ vendor_profiles[answer.w].location = <<"">>

\* C13: for vendor A (technology, 'San Francisco, CA', budget 10000, audience
\* {startups, entrepreneurs}) and vendor B (same industry and location, budget
\* 8000, audience {startups}), neither with a business_type, the similarity
\* calculated is 0.755 / 0.85 and A is in the list find_similar_vendors
\* returns for B.
C13_ScenarioSimilarity ==
  vendor_profiles = <<profile_row(ScenarioVendorA), profile_row(ScenarioVendorB)>>
    => /\ (answer.op = "calculate_similarity" /\ answer.v # answer.w)
            => answer.score = Rat(755, 850)
       /\ (answer.op = "find_similar_vendors" /\ answer.v = 2)
            => \E k \in DOMAIN answer.entries : answer.entries[k].vendor_id = 1

\* the other stored vendors whose similarity to v satisfies Kept
OthersWith(v, Kept(_)) ==
  {w \in DOMAIN vendor_profiles \ {v} :
     Kept(calculate_similarity(vendor_profiles[v], vendor_profiles[w]).value)}

AtLeastThreeTenths(similarity) == ~RatLess(similarity, <<3, 10>>)
MoreThanThreeTenths(similarity) == RatLess(<<3, 10>>, similarity)

ReturnedIds == {answer.entries[k].vendor_id : k \in DOMAIN answer.entries}

KeptInOrder ==
  CASE answer.op = "find_similar_vendors" ->
         IF answer.v \in DOMAIN vendor_profiles
           THEN similarities_from(vendor_profiles, answer.v, 1).value ELSE <<>>
    [] answer.op = "find_collaboration_matches" ->
         IF answer.v \in DOMAIN vendor_profiles
           THEN matches_from(vendor_profiles, answer.v, 1).value ELSE <<>>
    [] answer.op = "find_investor_matches" ->
         LET pitch == pitch_with_vendor(fundraising_pitches, vendor_profiles,
                                        answer.v)
         IN IF pitch = <<>> THEN <<>>
            ELSE investor_matches_from(pitch[1], investors, 1).value
    [] OTHER -> <<>>

LimitOfCall ==
  CASE answer.op = "find_similar_vendors" -> answer.limit
    [] answer.op = "find_collaboration_matches" -> MatchLimit
    [] OTHER -> InvestorLimit

SameKey(a, b) == ~RatLess(SortKey(a), SortKey(b)) /\ ~RatLess(SortKey(b), SortKey(a))

PlaceIn(kept, e) == CHOOSE j \in DOMAIN kept : kept[j] = e

SubjectMissing(a) ==
  \/ /\ a.op \in {"find_similar_vendors", "find_collaboration_matches"}
     /\ a.v \notin DOMAIN vendor_profiles
  \/ /\ a.op = "find_investor_matches"
     /\ a.v \notin DOMAIN fundraising_pitches

\* C25: a matching call for a vendor id or pitch id that has no row returns
\* the empty list, raises nothing and leaves every table as it was
C25_MissingSubjectGivesEmptyList ==
  [][ SubjectMissing(answer')
        => /\ ~answer'.raised
           /\ answer'.entries = <<>>
           /\ UNCHANGED <<vendor_profiles, fundraising_pitches, investors,
                          trustVars, content_calendar>> ]_vars

\* C25 witness: each of the three calls has answered for an id one past the
\* last row of a filled table; here the collaboration call
C25_AskedPastLastRow ==
  /\ answer.op = "find_collaboration_matches"
  /\ vendor_profiles # <<>>
  /\ answer.v = Len(vendor_profiles) + 1
  /\ ~answer.raised
  /\ answer.entries = <<>>

(* ------------------------ sessions: properties ------------------------- *)
\* the header is absent, or names no stored session, or one that has expired
HeaderRefused(h) ==
  \/ h = NoHeader
  \/ \A i \in DOMAIN sessions :
       sessions[i].session_id = h => sessions[i].expires_at <= clock

\* C27: a request to one of the eight endpoints that require a session, made
\* with a header that is absent or names a session that does not exist or
\* has expired, is answered 401 and changes no table
C27_RefusedHeaderGets401 ==
  [][ \A h \in Headers :
        (HeaderRefused(h) /\ RequestWith(h))
        => /\ last'.error = "401"
           /\ UNCHANGED <<trustVars, vendor_profiles, content_calendar, jobs,
                          fundraising_pitches, investors, sessions>> ]_vars

\* C27 witness: with session 1 expired and session 2 live, a
\* create-pitch request naming session 1 was answered 401 after a request
\* naming session 2 had stored a campaign
C27_ExpiredSessionRefused ==
  /\ Len(sessions) = 2
  /\ HeaderRefused(1)
  /\ ~HeaderRefused(2)
  /\ last.op = "create_pitch"
  /\ last.error = "401"
  /\ ad_campaigns # <<>>

ClaimedComplementary(industry1, industry2) ==
  {industry1, industry2} \in
    { {"restaurant", "food_delivery"}, {"retail", "logistics"},
      {"software", "consulting"}, {"photography", "real_estate"},
      {"event_planning", "catering"} }

NoData(v) ==
  /\ \A i \in DOMAIN collaborations :
       collaborations[i].vendor1_id # v /\ collaborations[i].vendor2_id # v
  /\ \A i \in DOMAIN reviews : reviews[i].vendor_id # v
  /\ \A i \in DOMAIN ad_campaigns : ad_campaigns[i].vendor_id # v

\* C30: every score calculate_trust_score returns and stores is at least 50,
\* and it is exactly 70 for a vendor with no collaboration, review or campaign
C30_ScoreAtLeast50 ==
  /\ \A v \in DOMAIN trust_scores : ~RatLess(trust_scores[v].score, <<50, 1>>)
  /\ last.op = "calculate_trust_score"
       => /\ ~RatLess(last.value, <<50, 1>>)
          /\ NoData(last.v) => last.value = <<70, 1>>

\* C30 witness: a vendor whose only review rates it 1, with no completed
\* collaboration and no campaign, was scored exactly 50
C30_ScoredExactly50 ==
  /\ last.op = "calculate_trust_score"
  /\ last.v = 1
  /\ last.value = <<50, 1>>
  /\ trust_scores[1].score = <<50, 1>>
  /\ \E i \in DOMAIN reviews : reviews[i].vendor_id = 1 /\ reviews[i].rating = 1

(* ---------------------- score store: properties ------------------------ *)
TrustCalls == {"calculate_trust_score", "add_review", "add_trust_event"}

C22_EveryScoreHasAVendor ==
  \A v \in DOMAIN trust_scores : v \in DOMAIN vendor_profiles

\* C23: an add-review request of a signed-in user with a rating outside 1..5
\* is answered with a validation error and leaves the reviews and the trust
\* scores as they were, and every stored review has a rating from 1 to 5
C23_RatingOutsideRangeRejected ==
  [][ /\ \A i \in DOMAIN reviews' : reviews'[i].rating \in 1..5
      /\ (/\ last'.op = "add_review_request"
          /\ last'.error # "401"
          /\ last'.rating \notin 1..5)
         => /\ last'.error \in {"Missing required fields",
                                "Rating must be between 1 and 5"}
            /\ reviews' = reviews
            /\ trust_scores' = trust_scores ]_vars

\* C23 witness: a request with rating 6 for vendor 1 was rejected while
\* reviews and a trust score of that vendor are stored
C23_RatingSixRejected ==
  /\ last.op = "add_review_request"
  /\ last.rating = 6
  /\ last.v = 1
  /\ last.error = "Rating must be between 1 and 5"
  /\ reviews # <<>>
  /\ 1 \in DOMAIN trust_scores

(* ------------------------- trust: properties --------------------------- *)
\* the row the trust formula gives for v over the rows stored now
TrustRowNow(v) ==
  trust_row(collab_result(collaborations, v), review_result(reviews, v),
            campaign_result(ad_campaigns, v))

\* C1: once add_review (with a rating the table accepts) or add_trust_event
\* for vendor v has been called, the call has returned normally, the review
\* just added is stored, and the stored trust score of v is the trust formula
\* over v's reviews, collaborations and campaigns stored at that moment.
C1_ScoreCurrentAfterCall ==
  (last.op \in {"add_review", "add_trust_event"} /\ last.error # "IntegrityError")
    => /\ last.error = "none"
       /\ last.op = "add_review" =>
            (reviews # <<>> /\ reviews[Len(reviews)].vendor_id = last.v)
       /\ last.v \in DOMAIN trust_scores
       /\ trust_scores[last.v] = TrustRowNow(last.v)

\* the three terms of the formula and the base score, as the claim gives them:
\* a rate is completed / total and 0 when there is none, the average rating is
\* 3.0 when the vendor has no reviews
ClaimedRate(result) == IF result[1] = 0 THEN <<0, 1>> ELSE Rat(result[2], result[1])
ClaimedAverage(result) == IF result[1] = 0 THEN <<3, 1>> ELSE Rat(result[2], result[1])
Times(k, p) == Rat(k * p[1], p[2])
ClaimedSum(v) ==
  RatAdd(RatAdd(Times(30, ClaimedRate(collab_result(collaborations, v))),
                Times(10, ClaimedAverage(review_result(reviews, v)))),
         RatAdd(Times(20, ClaimedRate(campaign_result(ad_campaigns, v))), <<40, 1>>))
ClaimedTrustScore(v) ==
  IF RatLess(<<100, 1>>, ClaimedSum(v)) THEN <<100, 1>>
  ELSE IF RatLess(ClaimedSum(v), <<0, 1>>) THEN <<0, 1>> ELSE ClaimedSum(v)

\* C19: calculate_trust_score returns and stores
\* min(max(collab_rate*30 + avg_rating*10 + campaign_rate*20 + 40, 0), 100),
\* and every stored trust score lies in [0, 100].
C19_ReturnsAndStoresClampedScore ==
  /\ (last.op = "calculate_trust_score" /\ last.error = "none")
       => /\ last.value = ClaimedTrustScore(last.v)
          /\ last.v \in DOMAIN trust_scores
          /\ trust_scores[last.v].score = ClaimedTrustScore(last.v)
  /\ \A v \in DOMAIN trust_scores :
       /\ ~RatLess(trust_scores[v].score, <<0, 1>>)
       /\ ~RatLess(<<100, 1>>, trust_scores[v].score)

\* C19 witness: the score of a vendor with 2 of 3 collaborations completed,
\* average rating 4.0 and 3 of 5 campaigns completed, whose sum is 112, was
\* calculated.
C19_ScoreOf112Calculated ==
  /\ last.op = "calculate_trust_score"
  /\ last.error = "none"
  /\ collab_result(collaborations, last.v) = <<3, 2>>
  /\ review_result(reviews, last.v) = <<2, 8>>
  /\ campaign_result(ad_campaigns, last.v) = <<5, 3>>
  /\ ClaimedSum(last.v) = <<112, 1>>

\* C20: a calculate_trust_score call that directly follows a call for the
\* same vendor, with no review, collaboration or campaign change in between,
\* returns the same value and leaves the stored score, reliability and
\* completion_rate as they were.
C20_SecondCallChangesNothing ==
  [][(last'.op = "calculate_trust_score" /\ last'.again /\ last'.error = "none")
       => /\ last.error = "none" => last'.value = last.value
          /\ last.v \in DOMAIN trust_scores =>
               /\ trust_scores'[last.v].score = trust_scores[last.v].score
               /\ trust_scores'[last.v].reliability = trust_scores[last.v].reliability
               /\ trust_scores'[last.v].completion_rate
                    = trust_scores[last.v].completion_rate]_vars

\* C20 witness: calculate_trust_score was called twice in a row for a vendor
\* that has collaborations and campaigns, after a collaboration or a
\* campaign was completed.
C20_CalledTwiceInARow ==
  /\ last.op = "calculate_trust_score"
  /\ last.again
  /\ (collaborations \notin ScoreCollaborations \/ ad_campaigns \notin ScoreCampaigns)
  /\ last.v \in DOMAIN trust_scores
  /\ collab_result(collaborations, last.v)[1] > 0
  /\ campaign_result(ad_campaigns, last.v)[1] > 0

\* C7: every stored collaboration has two distinct vendor ids.
C7_DistinctVendors ==
  \A i \in DOMAIN collaborations :
    collaborations[i].vendor1_id # collaborations[i].vendor2_id

\* both requests have finished, by returning or by raising
BothFinished == \A p \in Procs : pc[p] \in {"done", "failed"}

\* C9: when two requests that each change a vendor's trust inputs and
\* recompute its score (add a review, create a campaign) have run with their
\* statements interleaved and both have finished, the stored trust score of
\* every vendor is the trust formula over the rows now stored.
C9_ScoreCurrentAfterBoth ==
  (BothFinished /\ \A p \in Procs : req[p].kind \in {"add_review", "create_campaign"})
    => \A v \in VendorIds :
         v \in DOMAIN trust_scores /\ trust_scores[v] = TrustRowNow(v)

====
